---- MODULE Spec2Model ----
(***************************************************************************)
(* Model of the quotation system's pricing engine (lib/pricing-engine):    *)
(* calculateDiscount, filterApplicableRules, calculatePrice and            *)
(* calculateQuoteTotals.                                                   *)
(*                                                                         *)
(* The engine computes with JavaScript numbers, i.e. IEEE-754 binary64     *)
(* values with round-to-nearest-even arithmetic.  Money amounts are        *)
(* decimal fractions that binary64 cannot represent exactly, and the       *)
(* engine rounds to cents with Math.round(x * 100) / 100, so whether a     *)
(* half-cent tie rounds up or down depends on the accumulated binary       *)
(* rounding error.  The model therefore computes with binary64 values      *)
(* bit for bit: a number is a record [s, m, e] standing for s * m * 2^e    *)
(* with m an odd natural below 2^53 (or zero), held as a little-endian     *)
(* sequence of 15-bit limbs.  Infinities, NaN, subnormals and the sign of  *)
(* zero are outside the value ranges used here and are not modelled.       *)
(*                                                                         *)
(* An intermediate value of the source (a const, a loop variable) is the   *)
(* parameter of the operator that computes what follows it, so that each   *)
(* is written, and evaluated, once.                                        *)
(***************************************************************************)
EXTENDS Integers, Sequences, FiniteSets, TLC

\* ---------------------------------------------------------------------
\* Arbitrary-size naturals (the 53-bit significands and their products).
\* ---------------------------------------------------------------------
LimbBits == 15
LimbBase == 2^LimbBits
MantissaBits == 53

RECURSIVE Pow2(_)
Pow2(k) == IF k = 0 THEN 1 ELSE 2 * Pow2(k - 1)

RECURSIVE BigTrim(_)
BigTrim(a) ==
  IF a = <<>> THEN a
  ELSE IF a[Len(a)] = 0 THEN BigTrim(SubSeq(a, 1, Len(a) - 1)) ELSE a

RECURSIVE BigFromNat(_)
BigFromNat(n) ==
  IF n = 0 THEN <<>> ELSE <<n % LimbBase>> \o BigFromNat(n \div LimbBase)

BigRest(a) == IF a = <<>> THEN <<>> ELSE Tail(a)
BigLow(a) == IF a = <<>> THEN 0 ELSE a[1]

RECURSIVE BigAddCarry(_, _, _)
BigAddCarry(a, b, c) ==
  IF a = <<>> /\ b = <<>> THEN (IF c = 0 THEN <<>> ELSE <<c>>)
  ELSE LET x == BigLow(a) + BigLow(b) + c
       IN <<x % LimbBase>> \o BigAddCarry(BigRest(a), BigRest(b), x \div LimbBase)

BigAdd(a, b) == BigAddCarry(a, b, 0)

\* a - b for a >= b
RECURSIVE BigSubBorrow(_, _, _)
BigSubBorrow(a, b, c) ==
  IF a = <<>> THEN <<>>
  ELSE LET x == a[1] - BigLow(b) - c
       IN IF x < 0
          THEN <<x + LimbBase>> \o BigSubBorrow(Tail(a), BigRest(b), 1)
          ELSE <<x>> \o BigSubBorrow(Tail(a), BigRest(b), 0)

BigSub(a, b) == BigTrim(BigSubBorrow(a, b, 0))

\* -1, 0, 1 as a < b, a = b, a > b (both trimmed)
RECURSIVE BigCmpFrom(_, _, _)
BigCmpFrom(a, b, i) ==
  IF i = 0 THEN 0
  ELSE IF a[i] < b[i] THEN -1
  ELSE IF a[i] > b[i] THEN 1
  ELSE BigCmpFrom(a, b, i - 1)

BigCmp(a, b) ==
  IF Len(a) < Len(b) THEN -1
  ELSE IF Len(a) > Len(b) THEN 1
  ELSE BigCmpFrom(a, b, Len(a))

\* a * c for 0 <= c < LimbBase
RECURSIVE BigMulSmallCarry(_, _, _)
BigMulSmallCarry(a, c, carry) ==
  IF a = <<>> THEN (IF carry = 0 THEN <<>> ELSE <<carry>>)
  ELSE LET x == a[1] * c + carry
       IN <<x % LimbBase>> \o BigMulSmallCarry(Tail(a), c, x \div LimbBase)

BigMulSmall(a, c) == IF c = 0 THEN <<>> ELSE BigMulSmallCarry(a, c, 0)

RECURSIVE BigMul(_, _)
BigMul(a, b) ==
  IF a = <<>> \/ b = <<>> THEN <<>>
  ELSE LET rest == BigMul(a, Tail(b))
       IN BigAdd(BigMulSmall(a, b[1]),
                 IF rest = <<>> THEN <<>> ELSE <<0>> \o rest)

\* quotient and remainder of a by c, 0 < c < LimbBase; i runs from the top limb
RECURSIVE BigDivSmallFrom(_, _, _, _, _)
BigDivSmallFrom(a, c, i, r, q) ==
  IF i = 0 THEN [q |-> BigTrim(q), r |-> r]
  ELSE LET x == r * LimbBase + a[i]
       IN BigDivSmallFrom(a, c, i - 1, x % c, <<x \div c>> \o q)

BigDivSmall(a, c) == BigDivSmallFrom(a, c, Len(a), 0, <<>>)

RECURSIVE NatBitLen(_)
NatBitLen(n) == IF n = 0 THEN 0 ELSE 1 + NatBitLen(n \div 2)

BigBitLen(a) ==
  IF a = <<>> THEN 0 ELSE (Len(a) - 1) * LimbBits + NatBitLen(a[Len(a)])

BigZeros(n) == [i \in 1..n |-> 0]

BigShiftLeft(a, k) ==
  IF a = <<>> THEN <<>>
  ELSE BigZeros(k \div LimbBits) \o BigMulSmall(a, Pow2(k % LimbBits))

BigShiftRight(a, k) ==
  IF Len(a) <= k \div LimbBits THEN <<>>
  ELSE BigDivSmall(SubSeq(a, (k \div LimbBits) + 1, Len(a)), Pow2(k % LimbBits)).q

\* the largest digit q <= qhat with d * q <= r
RECURSIVE BigDivDigit(_, _, _)
BigDivDigit(d, r, qhat) ==
  IF BigCmp(BigMulSmall(d, qhat), r) = 1 THEN BigDivDigit(d, r, qhat - 1) ELSE qhat

\* the first estimate of the next quotient digit: the top limbs of the
\* running remainder r2 by the top limb of d
BigDivEstimate(r2, d) ==
  IF Len(r2) > Len(d)
  THEN (r2[Len(r2)] * LimbBase + r2[Len(r2) - 1]) \div d[Len(d)]
  ELSE IF Len(r2) = Len(d) THEN r2[Len(r2)] \div d[Len(d)]
  ELSE 0

BigDivTake(st, d, r2, digit) ==
  [q |-> <<digit>> \o st.q, r |-> BigSub(r2, BigMulSmall(d, digit))]

BigDivBring(st, d, r2, est) ==
  BigDivTake(st, d, r2,
             BigDivDigit(d, r2, IF est > LimbBase - 1 THEN LimbBase - 1 ELSE est))

BigDivOn(st, d, r2) == BigDivBring(st, d, r2, BigDivEstimate(r2, d))

\* one step of long division by d (top limb >= LimbBase / 2): bring down a limb
BigDivStep(st, d, limb) ==
  BigDivOn(st, d, IF st.r = <<>> /\ limb = 0 THEN <<>> ELSE <<limb>> \o st.r)

\* long division of n by d over the limbs i, i-1 .. 1 of n (the test on the
\* step's result has each step evaluated before the next one starts)
RECURSIVE BigDivFrom(_, _, _, _)
BigDivNext(n, d, i, next) ==
  IF Len(next.q) + Len(next.r) >= 0 THEN BigDivFrom(n, d, i - 1, next) ELSE next

BigDivFrom(n, d, i, st) ==
  IF i = 0 THEN st ELSE BigDivNext(n, d, i, BigDivStep(st, d, n[i]))

BigDivBySmall(qr) == [q |-> qr.q, r |-> BigFromNat(qr.r)]

BigDivResult(st, sh) == [q |-> BigTrim(st.q), r |-> BigShiftRight(st.r, sh)]

\* n by d, both shifted left by sh bits so that the top limb of d is full
BigDivNormalized(n, d, sh) ==
  BigDivResult(BigDivFrom(n, d, Len(n), [q |-> <<>>, r |-> <<>>]), sh)

\* quotient and remainder of n by d, d # 0, both as naturals
BigDivBy(n, d, sh) ==
  BigDivNormalized(BigShiftLeft(n, sh), BigShiftLeft(d, sh), sh)

BigDiv(n, d) ==
  IF Len(d) = 1 THEN BigDivBySmall(BigDivSmall(n, d[1]))
  ELSE BigDivBy(n, d, LimbBits - NatBitLen(d[Len(d)]))

\* ---------------------------------------------------------------------
\* binary64 values
\* ---------------------------------------------------------------------
NumZero == [s |-> 1, m |-> <<>>, e |-> 0]

\* strip trailing zero bits so that every value has one representation
RECURSIVE NumCanon(_, _, _)
NumCanon(s, m, e) ==
  IF m = <<>> THEN NumZero
  ELSE IF m[1] = 0 THEN NumCanon(s, Tail(m), e + LimbBits)
  ELSE IF m[1] % 2 = 0 THEN NumCanon(s, BigDivSmall(m, 2).q, e + 1)
  ELSE [s |-> s, m |-> m, e |-> e]

\* q are the 53 kept bits and c compares the dropped bits with one half:
\* round up above one half, and at one half when q is odd (or sticky)
NumRoundKept(s, q, e, sticky, c) ==
  NumCanon(s,
           IF c = 1 \/ (c = 0 /\ (sticky \/ BigLow(q) % 2 = 1))
           THEN BigAdd(q, <<1>>) ELSE q,
           e)

NumRoundDropped(s, big, e, sticky, drop, q) ==
  NumRoundKept(s, q, e + drop, sticky,
               BigCmp(BigSub(big, BigShiftLeft(q, drop)), BigShiftLeft(<<1>>, drop - 1)))

NumRoundBits(s, big, e, sticky, drop) ==
  IF drop <= 0 THEN NumCanon(s, big, e)
  ELSE NumRoundDropped(s, big, e, sticky, drop, BigShiftRight(big, drop))

\* the binary64 value nearest to s * big * 2^e, ties to even; sticky says
\* that the exact value lies strictly above big * 2^e (a division remainder)
NumRound(s, big, e, sticky) ==
  NumRoundBits(s, big, e, sticky, BigBitLen(big) - MantissaBits)

NumInt(n) ==
  IF n < 0 THEN NumCanon(-1, BigFromNat(-n), 0) ELSE NumCanon(1, BigFromNat(n), 0)

NumNeg(a) == IF a.m = <<>> THEN a ELSE [a EXCEPT !.s = -a.s]

\* a * b
NumMul(a, b) ==
  IF a.m = <<>> \/ b.m = <<>> THEN NumZero
  ELSE NumRound(a.s * b.s, BigMul(a.m, b.m), a.e + b.e, FALSE)

\* x and y are the significands of a and b at the common exponent e, and
\* c compares them
NumAddSigned(a, b, e, x, y, c) ==
  IF a.s = b.s THEN NumRound(a.s, BigAdd(x, y), e, FALSE)
  ELSE IF c = 0 THEN NumZero
  ELSE NumRound(IF c = 1 THEN a.s ELSE b.s,
                IF c = 1 THEN BigSub(x, y) ELSE BigSub(y, x), e, FALSE)

NumAddAligned(a, b, e, x, y) == NumAddSigned(a, b, e, x, y, BigCmp(x, y))

NumAddAt(a, b, e) ==
  NumAddAligned(a, b, e, BigShiftLeft(a.m, a.e - e), BigShiftLeft(b.m, b.e - e))

\* a + b
NumAdd(a, b) ==
  IF a.m = <<>> THEN b
  ELSE IF b.m = <<>> THEN a
  ELSE NumAddAt(a, b, IF a.e < b.e THEN a.e ELSE b.e)

\* a - b
NumSub(a, b) == NumAdd(a, NumNeg(b))

NumDivRound(a, b, k, qr) == NumRound(a.s * b.s, qr.q, a.e - b.e - k, qr.r # <<>>)

NumDivBits(a, b, k) == NumDivRound(a, b, k, BigDiv(BigShiftLeft(a.m, k), b.m))

\* a / b (b # 0): the quotient bits are produced with a remainder flag
NumDiv(a, b) ==
  IF a.m = <<>> THEN NumZero
  ELSE NumDivBits(a, b, MantissaBits + 3 + BigBitLen(b.m) - BigBitLen(a.m))

NumSign(a) == IF a.m = <<>> THEN 0 ELSE a.s

NumCmpAt(a, b, e) ==
  NumSign(a) * BigCmp(BigShiftLeft(a.m, a.e - e), BigShiftLeft(b.m, b.e - e))

\* -1, 0, 1 as a < b, a = b, a > b
NumCmp(a, b) ==
  IF NumSign(a) # NumSign(b) THEN (IF NumSign(a) < NumSign(b) THEN -1 ELSE 1)
  ELSE IF NumSign(a) = 0 THEN 0
  ELSE NumCmpAt(a, b, IF a.e < b.e THEN a.e ELSE b.e)

NumLt(a, b) == NumCmp(a, b) = -1
NumGt(a, b) == NumCmp(a, b) = 1
NumLe(a, b) == NumCmp(a, b) # 1
NumGe(a, b) == NumCmp(a, b) # -1

MathMax(a, b) == IF NumLt(a, b) THEN b ELSE a
MathMin(a, b) == IF NumLt(b, a) THEN b ELSE a

\* x = s * m * 2^-r with r > 0, and half = 2^(r-1)
MathRoundAt(x, r, half) ==
  IF x.s = 1
  THEN NumCanon(1, BigShiftRight(BigAdd(x.m, half), r), 0)
  ELSE IF BigCmp(x.m, half) # 1 THEN NumZero
  ELSE NumCanon(-1,
         BigShiftRight(
           BigAdd(BigSub(x.m, half), BigSub(BigShiftLeft(<<1>>, r), <<1>>)),
           r), 0)

\* Math.round: the nearest integer, ties towards +Infinity
MathRound(x) ==
  IF x.m = <<>> \/ x.e >= 0 THEN x
  ELSE MathRoundAt(x, -x.e, BigShiftLeft(<<1>>, -x.e - 1))

\* Math.round(x * 100) / 100
Round2(x) == NumDiv(MathRound(NumMul(x, NumInt(100))), NumInt(100))

\* the number a decimal literal n/100 (resp. n/10000) denotes
Dec2(n) == NumDiv(NumInt(n), NumInt(100))
Dec4(n) == NumDiv(NumInt(n), NumInt(10000))

\* ---------------------------------------------------------------------
\* DECIMAL columns: a value is held as its count of units (hundredths for
\* DECIMAL(12, 2), ten-thousandths for DECIMAL(5, 4))
\* ---------------------------------------------------------------------
RECURSIVE BigToNat(_)
BigToNat(a) == IF a = <<>> THEN 0 ELSE a[1] + (2 ^ LimbBits) * BigToNat(Tail(a))

\* the integer a binary64 value with no fraction denotes
NumToInt(a) == a.s * BigToNat(BigShiftLeft(a.m, a.e))

\* the binary64 value of the decimal (j + 1/2) / units, the tie between j
\* and j + 1 units
numericTie(j, units) == NumDiv(NumInt(2 * j + 1), NumInt(2 * units))

\* a number is sent as its shortest decimal and rounded half away from zero
\* to the scale of the column: it is at or above a tie exactly when it is at
\* or above the binary64 value of that tie; n is within one unit of it
numericNear(x, units, n) ==
  IF NumGe(x, numericTie(n, units)) THEN n + 1
  ELSE IF n > 0 /\ NumLt(x, numericTie(n - 1, units)) THEN n - 1
  ELSE n

numericAbs(x, units) ==
  numericNear(x, units, NumToInt(MathRound(NumMul(x, NumInt(units)))))

numeric(x, units) ==
  IF x.m = <<>> THEN 0 ELSE x.s * numericAbs([x EXCEPT !.s = 1], units)

\* ---------------------------------------------------------------------
\* lib/pricing-engine: rule matching
\* ---------------------------------------------------------------------
\* a null productId / categoryId
NULL == "null"

\* A field of the conditions payload is a sequence: <<>> when the key is
\* missing (reads as undefined), <<v>> when it holds v.
Missing == <<>>
Has(field) == field # <<>>

\* JavaScript truthiness of a string (an id or a level)
Truthy(v) == v # NULL /\ v # ""

\* a tier condition whose lower bound is exclusive
matchesTierConditionExclusive(conditions, quantity) ==
  LET minQty == IF Has(conditions.min_qty) THEN conditions.min_qty[1] ELSE NumZero
      maxQty == conditions.max_qty
  IN IF NumLe(quantity, minQty) THEN FALSE
     ELSE IF Has(maxQty) /\ NumGt(quantity, maxQty[1]) THEN FALSE
     ELSE TRUE

\* a tier condition that requires min_qty
matchesTierConditionRequired(conditions, quantity) ==
  LET maxQty == conditions.max_qty
  IN IF ~Has(conditions.min_qty) THEN FALSE
     ELSE IF NumLt(quantity, conditions.min_qty[1]) THEN FALSE
     ELSE IF Has(maxQty) /\ NumGt(quantity, maxQty[1]) THEN FALSE
     ELSE TRUE

matchesTierCondition(conditions, quantity) ==
  LET minQty == IF Has(conditions.min_qty) THEN conditions.min_qty[1] ELSE NumZero
      maxQty == conditions.max_qty
  IN IF NumLt(quantity, minQty) THEN FALSE
     ELSE IF Has(maxQty) /\ NumGt(quantity, maxQty[1]) THEN FALSE
     ELSE TRUE

\* a level condition without the wildcard
matchesCustomerLevelConditionStrict(conditions, customerLevel) ==
  LET requiredLevel == conditions.level
  IN IF ~Has(requiredLevel) THEN FALSE
     ELSE customerLevel = requiredLevel[1]

matchesCustomerLevelCondition(conditions, customerLevel) ==
  LET requiredLevel == conditions.level
  IN IF ~Has(requiredLevel) \/ ~Truthy(requiredLevel[1]) THEN TRUE
     ELSE customerLevel = requiredLevel[1]

\* a bundle condition that takes a missing or empty list as a wildcard
matchesBundleConditionLenient(conditions, productId) ==
  LET bundleProductIds == conditions.product_ids
  IN IF ~Has(bundleProductIds) \/ Len(bundleProductIds[1]) = 0 THEN TRUE
     ELSE \E i \in 1..Len(bundleProductIds[1]) : bundleProductIds[1][i] = productId

matchesBundleCondition(conditions, productId) ==
  LET bundleProductIds == conditions.product_ids
  IN IF ~Has(bundleProductIds) \/ Len(bundleProductIds[1]) = 0 THEN FALSE
     ELSE \E i \in 1..Len(bundleProductIds[1]) : bundleProductIds[1][i] = productId

\* dates are instants on an integer time line; now is the value of new Date()
\* a window that excludes its two bounds
isPromotionActiveExclusive(startDate, endDate, now) ==
  IF Has(startDate) /\ startDate[1] >= now THEN FALSE
  ELSE IF Has(endDate) /\ endDate[1] <= now THEN FALSE
  ELSE TRUE

isPromotionActive(startDate, endDate, now) ==
  IF Has(startDate) /\ startDate[1] > now THEN FALSE
  ELSE IF Has(endDate) /\ endDate[1] < now THEN FALSE
  ELSE TRUE

\* a filter whose scope test needs both the product and the category to match
ruleMatchesBothScopes(rule, context, now) ==
  LET productMatch == ~Truthy(rule.productId) \/ rule.productId = context.productId
      categoryMatch == ~Truthy(rule.categoryId) \/ rule.categoryId = context.categoryId
  IN IF ~productMatch \/ ~categoryMatch THEN FALSE
     ELSE CASE rule.ruleType = "tier" ->
                 matchesTierCondition(rule.conditions, context.quantity)
            [] rule.ruleType = "customer_level" ->
                 matchesCustomerLevelCondition(rule.conditions, context.customerLevel)
            [] rule.ruleType = "bundle" ->
                 matchesBundleCondition(rule.conditions, context.productId)
            [] rule.ruleType = "promotion" ->
                 isPromotionActive(rule.conditions.start_date,
                                   rule.conditions.end_date, now)
            [] OTHER -> TRUE

ruleMatches(rule, context, now) ==
  LET productMatch == ~Truthy(rule.productId) \/ rule.productId = context.productId
      categoryMatch == ~Truthy(rule.categoryId) \/ rule.categoryId = context.categoryId
  IN IF ~productMatch /\ ~categoryMatch THEN FALSE
     ELSE CASE rule.ruleType = "tier" ->
                 matchesTierCondition(rule.conditions, context.quantity)
            [] rule.ruleType = "customer_level" ->
                 matchesCustomerLevelCondition(rule.conditions, context.customerLevel)
            [] rule.ruleType = "bundle" ->
                 matchesBundleCondition(rule.conditions, context.productId)
            [] rule.ruleType = "promotion" ->
                 isPromotionActive(rule.conditions.start_date,
                                   rule.conditions.end_date, now)
            [] OTHER -> TRUE

\* isPromotionActive reads new Date() itself, so one call of the filter reads
\* the clock once for each promotion rule that passed the scope test. clock
\* is the sequence of the readings, in the order they are taken; the readings
\* after its last one return the last one.
readsClock(rule, context) ==
  /\ \/ ~Truthy(rule.productId) \/ rule.productId = context.productId
     \/ ~Truthy(rule.categoryId) \/ rule.categoryId = context.categoryId
  /\ rule.ruleType = "promotion"

reading(clock, k) == clock[IF k < Len(clock) THEN k ELSE Len(clock)]

\* rules.filter(...) from the rule after the first `reads` readings
RECURSIVE filterFrom(_, _, _, _)
filterFrom(rules, context, clock, reads) ==
  IF rules = <<>> THEN <<>>
  ELSE (IF ruleMatches(Head(rules), context, reading(clock, reads + 1))
          THEN <<Head(rules)>> ELSE <<>>)
       \o filterFrom(Tail(rules), context, clock,
                     IF readsClock(Head(rules), context) THEN reads + 1 ELSE reads)

filterApplicableRules(rules, context, clock) ==
  filterFrom(rules, context, clock, 0)

\* ---------------------------------------------------------------------
\* lib/pricing-engine: discount arithmetic
\* ---------------------------------------------------------------------
percentageDiscount(price, percentDiscount) ==
  [discountedPrice |-> NumSub(price, percentDiscount),
   discountAmount |-> percentDiscount]

\* a price override whose discount amount is clamped at zero
calculateDiscountClamped(price, discountType, discountValue) ==
  CASE discountType = "percentage" ->
         percentageDiscount(price, NumMul(price, NumDiv(discountValue, NumInt(100))))
    [] discountType = "fixed" ->
         [discountedPrice |-> MathMax(NumZero, NumSub(price, discountValue)),
          discountAmount |-> MathMin(price, discountValue)]
    [] discountType = "price_override" ->
         [discountedPrice |-> discountValue,
          discountAmount |-> MathMax(NumZero, NumSub(price, discountValue))]
    [] OTHER -> [discountedPrice |-> price, discountAmount |-> NumZero]

calculateDiscount(price, discountType, discountValue) ==
  CASE discountType = "percentage" ->
         percentageDiscount(price, NumMul(price, NumDiv(discountValue, NumInt(100))))
    [] discountType = "fixed" ->
         [discountedPrice |-> MathMax(NumZero, NumSub(price, discountValue)),
          discountAmount |-> MathMin(price, discountValue)]
    [] discountType = "price_override" ->
         [discountedPrice |-> discountValue,
          discountAmount |-> NumSub(price, discountValue)]
    [] OTHER -> [discountedPrice |-> price, discountAmount |-> NumZero]

\* ---------------------------------------------------------------------
\* lib/pricing-engine: calculatePrice
\* ---------------------------------------------------------------------
\* rules.sort((a, b) => b.priority - a.priority): a stable sort, descending
\* a sort that puts a rule before the rules of equal priority already sorted
RECURSIVE InsertBeforeTies(_, _)
InsertBeforeTies(sorted, rule) ==
  IF sorted = <<>> THEN <<rule>>
  ELSE IF sorted[1].priority > rule.priority
       THEN <<sorted[1]>> \o InsertBeforeTies(Tail(sorted), rule)
       ELSE <<rule>> \o sorted

RECURSIVE InsertByPriority(_, _)
InsertByPriority(sorted, rule) ==
  IF sorted = <<>> THEN <<rule>>
  ELSE IF sorted[1].priority >= rule.priority
       THEN <<sorted[1]>> \o InsertByPriority(Tail(sorted), rule)
       ELSE <<rule>> \o sorted

RECURSIVE SortByPriority(_)
SortByPriority(rules) ==
  IF rules = <<>> THEN <<>>
  ELSE InsertByPriority(SortByPriority(SubSeq(rules, 1, Len(rules) - 1)),
                        rules[Len(rules)])

\* the rule list sorted but not filtered
unfilteredRulesOf(rules, context, clock) ==
  SortByPriority(rules)

applicableRulesOf(rules, context, clock) ==
  SortByPriority(filterApplicableRules(rules, context, clock))

rulesByType(applicableRules, ruleType) ==
  SelectSeq(applicableRules, LAMBDA rule : rule.ruleType = ruleType)

\* the types in the order of the rule form's list
typeOrderOfForm == <<"tier", "customer_level", "bundle", "promotion">>

typeOrder == <<"promotion", "bundle", "tier", "customer_level">>

\* the rule a sort by ascending priority would put first
lowestRuleOf(typeRules) == typeRules[Len(typeRules)]

bestRuleOf(typeRules) == typeRules[1]

\* the loop variables before the first type is looked at
InitialPricing(basePrice) ==
  [appliedRules |-> <<>>, currentPrice |-> basePrice, totalDiscountAmount |-> NumZero]

AppliedRule(bestRule, discountAmount) ==
  [ruleId |-> bestRule.id,
   ruleName |-> bestRule.name,
   ruleType |-> bestRule.ruleType,
   discountType |-> bestRule.discountType,
   discountValue |-> bestRule.discountValue,
   discountAmount |-> discountAmount,
   priority |-> bestRule.priority]

\* the running price assigned outside the test of the discount amount
recordDiscountUnguarded(st, bestRule, d) ==
  IF NumGt(d.discountAmount, NumZero)
  THEN [appliedRules |-> Append(st.appliedRules, AppliedRule(bestRule, d.discountAmount)),
        currentPrice |-> d.discountedPrice,
        totalDiscountAmount |-> NumAdd(st.totalDiscountAmount, d.discountAmount)]
  ELSE [st EXCEPT !.currentPrice = d.discountedPrice]

\* the total accumulating the rule's discount value instead of the amount
recordDiscountValue(st, bestRule, d) ==
  IF NumGt(d.discountAmount, NumZero)
  THEN [appliedRules |-> Append(st.appliedRules, AppliedRule(bestRule, d.discountAmount)),
        currentPrice |-> d.discountedPrice,
        totalDiscountAmount |-> NumAdd(st.totalDiscountAmount, bestRule.discountValue)]
  ELSE st

\* if (discountAmount > 0) { push; currentPrice = ...; totalDiscountAmount += ... }
recordDiscount(st, bestRule, d) ==
  IF NumGt(d.discountAmount, NumZero)
  THEN [appliedRules |-> Append(st.appliedRules, AppliedRule(bestRule, d.discountAmount)),
        currentPrice |-> d.discountedPrice,
        totalDiscountAmount |-> NumAdd(st.totalDiscountAmount, d.discountAmount)]
  ELSE st

\* every discount computed on the base price instead of the running price
applyBestRuleOnBasePrice(st, bestRule) ==
  LET d == calculateDiscount(NumAdd(st.currentPrice, st.totalDiscountAmount),
                             bestRule.discountType, bestRule.discountValue)
  IN IF NumGt(d.discountAmount, NumZero)
     THEN [appliedRules |-> Append(st.appliedRules, AppliedRule(bestRule, d.discountAmount)),
           currentPrice |-> NumSub(st.currentPrice, d.discountAmount),
           totalDiscountAmount |-> NumAdd(st.totalDiscountAmount, d.discountAmount)]
     ELSE st

\* the body of the loop for a type that has a best rule
applyBestRule(st, bestRule) ==
  recordDiscount(st, bestRule,
    calculateDiscount(st.currentPrice, bestRule.discountType, bestRule.discountValue))

bestRuleApplied(prev, typeRules) ==
  IF Len(typeRules) = 0 THEN prev ELSE applyBestRule(prev, bestRuleOf(typeRules))

\* the loop variables after the first k types of typeOrder
RECURSIVE pricingAfter(_, _, _)
pricingAfter(applicableRules, basePrice, k) ==
  IF k = 0 THEN InitialPricing(basePrice)
  ELSE bestRuleApplied(pricingAfter(applicableRules, basePrice, k - 1),
                       rulesByType(applicableRules, typeOrder[k]))

\* the returned record with the percentage left unrounded
pricingResultUnrounded(basePrice, quantity, final, unitPrice) ==
  [originalPrice |-> basePrice,
   finalPrice |-> unitPrice,
   unitPrice |-> unitPrice,
   lineTotal |-> Round2(NumMul(unitPrice, quantity)),
   discountPercentage |->
     IF NumGt(basePrice, NumZero)
     THEN NumMul(NumDiv(NumSub(basePrice, unitPrice), basePrice), NumInt(100))
     ELSE NumZero,
   discountAmount |-> final.totalDiscountAmount,
   appliedRules |-> final.appliedRules]

\* the returned record, unitPrice being the rounded final price
pricingResult(basePrice, quantity, final, unitPrice) ==
  [originalPrice |-> basePrice,
   finalPrice |-> unitPrice,
   unitPrice |-> unitPrice,
   lineTotal |-> Round2(NumMul(unitPrice, quantity)),
   discountPercentage |->
     IF NumGt(basePrice, NumZero)
     THEN NumDiv(MathRound(NumMul(NumDiv(NumSub(basePrice, unitPrice), basePrice),
                                  NumInt(10000))),
                 NumInt(100))
     ELSE NumZero,
   discountAmount |-> final.totalDiscountAmount,
   appliedRules |-> final.appliedRules]

finalValues(basePrice, quantity, final) ==
  pricingResult(basePrice, quantity, final, Round2(final.currentPrice))

calculatePrice(context, rules, clock) ==
  finalValues(context.basePrice, context.quantity,
              pricingAfter(applicableRulesOf(rules, context, clock), context.basePrice,
                           Len(typeOrder)))

\* ---------------------------------------------------------------------
\* lib/pricing-engine: calculateQuoteTotals
\* ---------------------------------------------------------------------
\* items.reduce((sum, item) => sum + item.unitPrice * item.quantity, 0)
RECURSIVE SumItems(_)
SumItems(items) ==
  IF items = <<>> THEN NumZero
  ELSE NumAdd(SumItems(SubSeq(items, 1, Len(items) - 1)),
              NumMul(items[Len(items)].unitPrice, items[Len(items)].quantity))

quoteTotals(subtotal, taxableAmount, taxAmount) ==
  [subtotal |-> Round2(subtotal),
   taxAmount |-> taxAmount,
   totalAmount |-> Round2(NumAdd(taxableAmount, taxAmount))]

taxedTotals(subtotal, taxableAmount, taxRate) ==
  quoteTotals(subtotal, taxableAmount,
              NumDiv(MathRound(NumMul(NumMul(taxableAmount, taxRate), NumInt(100))),
                     NumInt(100)))

\* the taxable amount clamped at zero
totalsOfSubtotalClamped(subtotal, taxRate, discountAmount) ==
  taxedTotals(subtotal, MathMax(NumZero, NumSub(subtotal, discountAmount)), taxRate)

totalsOfSubtotal(subtotal, taxRate, discountAmount) ==
  taxedTotals(subtotal, NumSub(subtotal, discountAmount), taxRate)

calculateQuoteTotals(items, taxRate, discountAmount) ==
  totalsOfSubtotal(SumItems(items), taxRate, discountAmount)

\* ---------------------------------------------------------------------
\* Inputs of the calls
\* ---------------------------------------------------------------------
MaxRules == 2
MaxItems == 3

NoConditions ==
  [min_qty |-> Missing, max_qty |-> Missing, level |-> Missing,
   product_ids |-> Missing, start_date |-> Missing, end_date |-> Missing]

\* conditions of each type that the contexts below satisfy ...
MatchingConditions(ruleType) ==
  CASE ruleType = "tier" -> [NoConditions EXCEPT !.min_qty = <<NumInt(10)>>]
    [] ruleType = "customer_level" -> [NoConditions EXCEPT !.level = <<"vip">>]
    [] ruleType = "bundle" -> [NoConditions EXCEPT !.product_ids = << <<"p1", "p2">> >>]
    [] ruleType = "promotion" ->
         [NoConditions EXCEPT !.start_date = <<1>>, !.end_date = <<3>>]
    [] OTHER -> NoConditions

\* ... and that they do not satisfy
FailingConditions(ruleType) ==
  CASE ruleType = "tier" -> [NoConditions EXCEPT !.min_qty = <<NumInt(50)>>]
    [] ruleType = "customer_level" -> [NoConditions EXCEPT !.level = <<"normal">>]
    [] ruleType = "bundle" -> [NoConditions EXCEPT !.product_ids = << <<"p2">> >>]
    [] ruleType = "promotion" -> [NoConditions EXCEPT !.start_date = <<3>>]
    [] OTHER -> NoConditions

RuleTypes == {"promotion", "bundle", "tier", "customer_level"}

\* <<discountType, discountValue in cents, priority>>
Discounts ==
  {<<"percentage", 1000, 1>>, <<"fixed", 2000, 2>>, <<"price_override", 30000, 2>>}

Template(ruleType, conditions, productId, categoryId, discount) ==
  [ruleType |-> ruleType, productId |-> productId, categoryId |-> categoryId,
   conditions |-> conditions, discountType |-> discount[1],
   discountValue |-> Dec2(discount[2]), priority |-> discount[3]]

MatchingTemplates ==
  {Template(t, MatchingConditions(t), NULL, NULL, d) : t \in RuleTypes, d \in Discounts}

\* rules that do not match, of an unknown rule type, of an unknown discount
\* type, and with a percentage above 100
OtherTemplates ==
  {Template("tier", FailingConditions("tier"), NULL, NULL, <<"fixed", 2000, 2>>),
   Template("tier", MatchingConditions("tier"), "p2", "c2", <<"fixed", 2000, 2>>),
   Template("seasonal", NoConditions, NULL, NULL, <<"percentage", 1000, 2>>),
   Template("tier", MatchingConditions("tier"), NULL, NULL, <<"bonus", 1000, 2>>),
   Template("tier", MatchingConditions("tier"), NULL, NULL, <<"percentage", 15000, 2>>)}

RuleTemplates == MatchingTemplates \cup OtherTemplates

\* the rule list built from a sequence of templates; a rule's id is its position
RulesOf(templates) ==
  [i \in 1..Len(templates) |->
     [id |-> i, name |-> i,
      ruleType |-> templates[i].ruleType,
      productId |-> templates[i].productId,
      categoryId |-> templates[i].categoryId,
      conditions |-> templates[i].conditions,
      discountType |-> templates[i].discountType,
      discountValue |-> templates[i].discountValue,
      priority |-> templates[i].priority]]

\* lists with one matching rule of each type come in two list orders
TypeListOrders ==
  {<<"promotion", "bundle", "tier", "customer_level">>,
   <<"customer_level", "tier", "bundle", "promotion">>}

FullDiscounts == {<<"percentage", 1000>>, <<"fixed", 2000>>, <<"price_override", 5000>>}

\* the priorities of such a list, by list position
FullPriorities == {<<1, 2, 1, 2>>, <<2, 2, 1, 1>>}

FullTemplates(order, choice, priorities) ==
  [i \in 1..Len(order) |->
     Template(order[i], MatchingConditions(order[i]), NULL, NULL,
              <<choice[i][1], choice[i][2], priorities[i]>>)]

Context(basePriceCents) ==
  [productId |-> "p1", categoryId |-> "c1", quantity |-> NumInt(20),
   customerLevel |-> "vip", basePrice |-> Dec2(basePriceCents), orgId |-> "default"]

BasePrices == {9999, 20000}
\* the readings of new Date() during one call
Clocks == {<<2>>}

DiscountPrices == {0, 5, 9999, 20000}
DiscountTypes == {"percentage", "fixed", "price_override", "bonus"}
DiscountValues == {-500, 0, 1000, 2000, 15000, 30000}

\* <<unitPrice in cents, quantity in hundredths>>
Items ==
  {[unitPrice |-> Dec2(i[1]), quantity |-> Dec2(i[2])] :
     i \in {<<363, 200>>, <<464, 300>>, <<212, 100>>, <<9000, 2000>>, <<25, 50>>}}

TaxRates == {0, 500}
QuoteDiscounts == {0, 10000, 200000}

\* ---------------------------------------------------------------------
\* The engine as called by the application: one call at a time, each call
\* a pure function of its arguments (and, for promotions, of the clock).
\* quotes and quote_items are the rows of the two tables: quotes holds the
\* header rows, the id of a quote being its position, and quote_items the
\* item rows with their quote_id. approval_settings and quote_templates are
\* the rows of those tables for the one organisation.
\* calls holds the server actions in flight that make more than one database
\* request, each at its position with what it has read; history holds the
\* names of the approver's actions that have taken effect; begun counts the
\* calls of updateQuote made so far in the run.
\* ---------------------------------------------------------------------
VARIABLES op, args, result, quotes, quote_items,
          approval_settings, quote_templates, calls, history, begun

vars == <<op, args, result, quotes, quote_items,
          approval_settings, quote_templates, calls, history, begun>>

engine == <<op, args, result>>
settings == <<approval_settings, quote_templates>>
stored == <<quotes, quote_items, approval_settings, quote_templates, calls, history, begun>>

MaxCalls == 2
Callers == 1..MaxCalls
NoCall == [fn |-> "none"]

\* a server action that begins takes the first free place of calls
free(c) == calls[c] = NoCall /\ \A d \in 1..(c - 1) : calls[d] # NoCall

\* the approval setting the migration seeds: 100000, active
SeededSettings ==
  <<[threshold_amount |-> Dec2(10000000), is_active |-> TRUE, is_deleted |-> FALSE]>>

\* the template the schema ships for the organisation
SeededTemplates == <<[is_default |-> TRUE, is_deleted |-> FALSE]>>

Init ==
  /\ op = "idle"
  /\ args = <<>>
  /\ result = <<>>
  /\ quotes = <<>>
  /\ quote_items = <<>>
  /\ approval_settings = SeededSettings
  /\ quote_templates = SeededTemplates
  /\ calls = [c \in Callers |-> NoCall]
  /\ history = {}
  /\ begun = 0

CallCalculateDiscount ==
  /\ op = "idle"
  /\ \E p \in DiscountPrices, t \in DiscountTypes, v \in DiscountValues :
       /\ op' = "calculateDiscount"
       /\ args' = [price |-> Dec2(p), discountType |-> t, discountValue |-> Dec2(v)]
       /\ result' = calculateDiscount(args'.price, args'.discountType, args'.discountValue)
       /\ UNCHANGED stored

PriceCall(context, rules, clock) ==
  /\ op' = "calculatePrice"
  /\ args' = [context |-> context, rules |-> rules, clock |-> clock]
  /\ result' = calculatePrice(args'.context, args'.rules, args'.clock)
  /\ UNCHANGED stored

\* calculatePrice on every list of at most MaxRules rules, on the lists with
\* one matching rule of each type, and on a product whose base price is 0
CallCalculatePrice ==
  /\ op = "idle"
  /\ \E clock \in Clocks :
       \/ \E b \in BasePrices, n \in 0..MaxRules :
            \E templates \in [1..n -> RuleTemplates] :
              PriceCall(Context(b), RulesOf(templates), clock)
       \/ \E b \in BasePrices, ord \in TypeListOrders :
            \E c \in [1..4 -> FullDiscounts], pr \in FullPriorities :
              PriceCall(Context(b), RulesOf(FullTemplates(ord, c, pr)), clock)
       \/ \E templates \in [1..1 -> RuleTemplates] :
            PriceCall(Context(0), RulesOf(templates), clock)

CallCalculateQuoteTotals ==
  /\ op = "idle"
  /\ \E n \in 0..MaxItems, r \in TaxRates, d \in QuoteDiscounts :
       \E items \in [1..n -> Items] :
         /\ op' = "calculateQuoteTotals"
         /\ args' = [items |-> items, taxRate |-> Dec4(r), discountAmount |-> Dec2(d)]
         /\ result' = calculateQuoteTotals(args'.items, args'.taxRate, args'.discountAmount)
         /\ UNCHANGED stored

\* the caller has taken the result
Return ==
  /\ op # "idle"
  /\ op' = "idle"
  /\ args' = <<>>
  /\ result' = <<>>
  /\ UNCHANGED stored

Next ==
  \/ CallCalculateDiscount
  \/ CallCalculatePrice
  \/ CallCalculateQuoteTotals
  \/ Return

Spec == Init /\ [][Next]_vars

\* ---------------------------------------------------------------------
\* Properties
\* ---------------------------------------------------------------------
PriceDone == op = "calculatePrice"
DiscountDone == op = "calculateDiscount"
TotalsDone == op = "calculateQuoteTotals"

\* the order of application the specification states
StatedTypeOrder == <<"promotion", "bundle", "tier", "customer_level">>
StatedPosition(ruleType) == CHOOSE i \in 1..Len(StatedTypeOrder) : StatedTypeOrder[i] = ruleType

\* the rules of the call that pass the filter, in list order
Applicable == filterApplicableRules(args.rules, args.context, args.clock)
ApplicableOfType(ruleType) == rulesByType(Applicable, ruleType)

\* the loop variables of the call after the first k types
LoopAfter(k) ==
  pricingAfter(applicableRulesOf(args.rules, args.context, args.clock),
               args.context.basePrice, k)

\* the rule the loop selects for the k-th type, as a sequence of length <= 1
SelectedAt(k) ==
  LET typeRules == rulesByType(applicableRulesOf(args.rules, args.context, args.clock),
                               typeOrder[k])
  IN IF Len(typeRules) = 0 THEN <<>> ELSE <<bestRuleOf(typeRules)>>

EntryOf(ruleId) ==
  {i \in 1..Len(result.appliedRules) : result.appliedRules[i].ruleId = ruleId}

\* C1: appliedRules lists the applied rules in the order promotion, bundle,
\* tier, customer_level, whatever the priority values of the rules are.
C1_FixedTypeOrder ==
  PriceDone =>
    \A i, j \in 1..Len(result.appliedRules) :
      i < j => StatedPosition(result.appliedRules[i].ruleType)
                 < StatedPosition(result.appliedRules[j].ruleType)

\* all four types applied, the customer_level rule having the higher priority
C1_Witness ==
  /\ PriceDone
  /\ Len(result.appliedRules) = 4
  /\ result.appliedRules[1].ruleType = "promotion"
  /\ result.appliedRules[4].ruleType = "customer_level"
  /\ result.appliedRules[4].priority > result.appliedRules[1].priority

\* the price of the call had the filter kept the rules of the list `rules`
PriceOfApplicable(rules) ==
  finalValues(args.context.basePrice, args.context.quantity,
              pricingAfter(SortByPriority(rules), args.context.basePrice,
                           Len(typeOrder)))

\* the applicable rules that no applicable rule of the same type outranks
TopRanked(rules) ==
  SelectSeq(rules,
    LAMBDA r : ~\E i \in 1..Len(rules) :
                  /\ rules[i].ruleType = r.ruleType
                  /\ rules[i].priority > r.priority)

\* C2: at most one entry per rule type; the entry is an applicable rule of
\* maximal priority within its type; rules of lower priority change nothing
\* in the result (the result is that of the list without them).
C2_OneRulePerType ==
  PriceDone =>
    /\ \A i, j \in 1..Len(result.appliedRules) :
         i # j => result.appliedRules[i].ruleType # result.appliedRules[j].ruleType
    /\ \A i \in 1..Len(result.appliedRules) :
         LET e == result.appliedRules[i]
         IN /\ e.ruleId \in 1..Len(args.rules)
            /\ \E k \in 1..Len(Applicable) : Applicable[k] = args.rules[e.ruleId]
            /\ args.rules[e.ruleId].ruleType = e.ruleType
            /\ args.rules[e.ruleId].priority = e.priority
            /\ \A k \in 1..Len(Applicable) :
                 Applicable[k].ruleType = e.ruleType => Applicable[k].priority <= e.priority
    /\ result = PriceOfApplicable(TopRanked(Applicable))

\* two applicable rules of one type; the higher-priority one yields no
\* discount, the lower-priority one would, and the type has no entry
C2_Witness ==
  /\ PriceDone
  /\ Len(args.rules) = 2
  /\ Len(Applicable) = 2
  /\ args.rules[1].ruleType = "tier" /\ args.rules[2].ruleType = "tier"
  /\ args.rules[1].priority = 1 /\ args.rules[1].discountType = "percentage"
  /\ args.rules[2].priority = 2 /\ args.rules[2].discountType = "price_override"
  /\ NumGt(args.rules[2].discountValue, args.context.basePrice)
  /\ result.appliedRules = <<>>

\* the price left by the first k entries of appliedRules, starting at basePrice
RECURSIVE PriceAfterEntries(_)
PriceAfterEntries(k) ==
  IF k = 0 THEN args.context.basePrice
  ELSE calculateDiscount(PriceAfterEntries(k - 1),
                         result.appliedRules[k].discountType,
                         result.appliedRules[k].discountValue).discountedPrice

IsStackedExample ==
  /\ args.context.basePrice = Dec2(20000)
  /\ Len(args.rules) = 2
  /\ \E i, j \in 1..2 :
       /\ args.rules[i].ruleType = "promotion"
       /\ args.rules[i].discountType = "fixed"
       /\ args.rules[i].discountValue = Dec2(2000)
       /\ args.rules[i].conditions = MatchingConditions("promotion")
       /\ args.rules[j].ruleType = "customer_level"
       /\ args.rules[j].discountType = "percentage"
       /\ args.rules[j].discountValue = Dec2(1000)
       /\ args.rules[j].conditions = MatchingConditions("customer_level")

\* C3: each entry's discount is computed on the price left by the entries
\* before it, and the unit price is the rounded price left by all of them;
\* basePrice 200 with fixed-20 promotion and 10% customer_level gives 162 / 38.
C3_Compounding ==
  PriceDone =>
    /\ \A k \in 1..Len(result.appliedRules) :
         result.appliedRules[k].discountAmount
           = calculateDiscount(PriceAfterEntries(k - 1),
                               result.appliedRules[k].discountType,
                               result.appliedRules[k].discountValue).discountAmount
    /\ result.unitPrice = Round2(PriceAfterEntries(Len(result.appliedRules)))
    /\ IsStackedExample =>
         /\ result.unitPrice = NumInt(162)
         /\ result.discountAmount = NumInt(38)
         /\ Len(result.appliedRules) = 2
         /\ result.appliedRules[1].ruleType = "promotion"
         /\ result.appliedRules[1].discountAmount = NumInt(20)
         /\ result.appliedRules[2].ruleType = "customer_level"
         /\ result.appliedRules[2].discountAmount = NumInt(18)

C3_Witness == PriceDone /\ IsStackedExample /\ result.unitPrice = NumInt(162)

\* C4: for percentage and fixed discounts on a price >= 0 the discounted
\* price is at most the price and at least 0 and the discount amount is at
\* least 0, for every discountValue; fixed gives max(0, price - value) and
\* min(price, value).
C4_DiscountBounds ==
  (DiscountDone /\ args.discountType \in {"percentage", "fixed"}
     /\ NumGe(args.price, NumZero)) =>
    /\ NumLe(result.discountedPrice, args.price)
    /\ NumGe(result.discountAmount, NumZero)
    /\ NumGe(result.discountedPrice, NumZero)
    /\ args.discountType = "fixed" =>
         /\ result.discountedPrice
              = MathMax(NumZero, NumSub(args.price, args.discountValue))
         /\ result.discountAmount = MathMin(args.price, args.discountValue)

\* C5: a price_override returns the override value as the price and
\* price - value as the discount amount, negative when the value is higher.
C5_OverrideSignFree ==
  (DiscountDone /\ args.discountType = "price_override") =>
    /\ result.discountedPrice = args.discountValue
    /\ result.discountAmount = NumSub(args.price, args.discountValue)
    /\ NumGt(args.discountValue, args.price) => NumLt(result.discountAmount, NumZero)

C5_Witness ==
  /\ DiscountDone
  /\ args.discountType = "price_override"
  /\ NumGt(args.discountValue, args.price)
  /\ NumLt(result.discountAmount, NumZero)

\* the k-th type selects a price_override whose discount amount is <= 0
SkippedOverrideAt(k) ==
  /\ SelectedAt(k) # <<>>
  /\ SelectedAt(k)[1].discountType = "price_override"
  /\ NumLe(calculateDiscount(LoopAfter(k - 1).currentPrice,
                             SelectedAt(k)[1].discountType,
                             SelectedAt(k)[1].discountValue).discountAmount,
           NumZero)

\* C6 as stated: such a rule has no entry in appliedRules and the running
\* price becomes its override value.
C6_SkippedOverrideSetsPrice ==
  PriceDone =>
    \A k \in 1..Len(typeOrder) :
      SkippedOverrideAt(k) =>
        /\ EntryOf(SelectedAt(k)[1].id) = {}
        /\ LoopAfter(k).currentPrice = SelectedAt(k)[1].discountValue

\* C6 as amended: such a rule has no entry in appliedRules and leaves the
\* running price, the applied rules and the total discount as they were.
C6_SkippedOverrideIsIgnored ==
  PriceDone =>
    \A k \in 1..Len(typeOrder) :
      SkippedOverrideAt(k) =>
        /\ EntryOf(SelectedAt(k)[1].id) = {}
        /\ LoopAfter(k) = LoopAfter(k - 1)

\* an override above the running price is selected
C6_Witness ==
  /\ PriceDone
  /\ \E k \in 1..Len(typeOrder) :
       /\ SkippedOverrideAt(k)
       /\ NumGt(SelectedAt(k)[1].discountValue, LoopAfter(k - 1).currentPrice)
       /\ LoopAfter(k).currentPrice = LoopAfter(k - 1).currentPrice

\* entries' discount amounts added up in list order, as the loop adds them
RECURSIVE SumOfEntries(_)
SumOfEntries(k) ==
  IF k = 0 THEN NumZero
  ELSE NumAdd(SumOfEntries(k - 1), result.appliedRules[k].discountAmount)

\* C7 as stated: discountAmount is the sum of the entries' discount amounts
\* and is basePrice minus the final unit price before rounding.
C7_DiscountIsPriceDrop ==
  PriceDone =>
    /\ result.discountAmount = SumOfEntries(Len(result.appliedRules))
    /\ result.discountAmount
         = NumSub(args.context.basePrice, LoopAfter(Len(typeOrder)).currentPrice)

NumAbs(a) == [a EXCEPT !.s = 1]

\* C7 as amended: discountAmount is the sum of the entries' discount amounts
\* added in list order, and differs from basePrice minus the final unit
\* price before rounding by less than 0.01 (by floating-point error only).
C7_DiscountIsSumOfEntries ==
  PriceDone =>
    /\ result.discountAmount = SumOfEntries(Len(result.appliedRules))
    /\ NumLt(NumAbs(NumSub(result.discountAmount,
                           NumSub(args.context.basePrice,
                                  LoopAfter(Len(typeOrder)).currentPrice))),
             Dec2(1))

\* several rules applied, and the two amounts are not the same number
C7_Witness ==
  /\ PriceDone
  /\ Len(result.appliedRules) >= 2
  /\ result.discountAmount = SumOfEntries(Len(result.appliedRules))
  /\ result.discountAmount
       # NumSub(args.context.basePrice, LoopAfter(Len(typeOrder)).currentPrice)

\* C8: when no rule of the list passes the filter, the result is the base
\* price, no discount and no applied rule.
C8_NoApplicableRule ==
  (PriceDone /\ Applicable = <<>>) =>
    /\ result.finalPrice = args.context.basePrice
    /\ result.unitPrice = args.context.basePrice
    /\ result.discountAmount = NumZero
    /\ result.appliedRules = <<>>

\* a rule list that is not empty and of which no rule is applicable
C8_Witness ==
  /\ PriceDone
  /\ Len(args.rules) > 0
  /\ Applicable = <<>>
  /\ result.appliedRules = <<>>
  /\ result.unitPrice = args.context.basePrice

IsTotalsExample ==
  /\ args.items = <<[unitPrice |-> NumInt(90), quantity |-> NumInt(20)]>>
  /\ args.taxRate = Dec4(500)
  /\ args.discountAmount = NumInt(100)

TotalsExampleResult ==
  [subtotal |-> NumInt(1800), taxAmount |-> NumInt(85), totalAmount |-> NumInt(1785)]

\* C9 as stated: subtotal is the sum of unitPrice * quantity, taxAmount is
\* round((subtotal - discountAmount) * taxRate), totalAmount is
\* round(subtotal - discountAmount + taxAmount); a discount above the
\* subtotal makes taxAmount and totalAmount negative.
C9_TotalsFromSubtotal ==
  TotalsDone =>
    /\ result.subtotal = SumItems(args.items)
    /\ result.taxAmount
         = Round2(NumMul(NumSub(result.subtotal, args.discountAmount), args.taxRate))
    /\ result.totalAmount
         = Round2(NumAdd(NumSub(result.subtotal, args.discountAmount), result.taxAmount))
    /\ NumGt(args.discountAmount, result.subtotal) =>
         NumLt(result.taxAmount, NumZero) /\ NumLt(result.totalAmount, NumZero)
    /\ IsTotalsExample => result = TotalsExampleResult

\* C9 as amended: with S the sum of unitPrice * quantity, subtotal is
\* round(S), taxAmount is round((S - discountAmount) * taxRate), totalAmount
\* is round(S - discountAmount + taxAmount); nothing is clamped, so a
\* discount above S makes taxAmount and totalAmount zero or negative.
C9_TotalsFromUnroundedSum ==
  TotalsDone =>
    LET S == SumItems(args.items)
    IN /\ result.subtotal = Round2(S)
       /\ result.taxAmount
            = Round2(NumMul(NumSub(S, args.discountAmount), args.taxRate))
       /\ result.totalAmount
            = Round2(NumAdd(NumSub(S, args.discountAmount), result.taxAmount))
       /\ NumGt(args.discountAmount, S) =>
            NumLe(result.taxAmount, NumZero) /\ NumLe(result.totalAmount, NumZero)
       /\ IsTotalsExample => result = TotalsExampleResult

\* a discount above the sum of the lines: negative tax and negative total
C9_Witness ==
  /\ TotalsDone
  /\ args.items # <<>>
  /\ NumGt(args.discountAmount, SumItems(args.items))
  /\ NumLt(result.taxAmount, NumZero)
  /\ NumLt(result.totalAmount, NumZero)

ItemOrders(n) ==
  {f \in [1..n -> 1..n] : \A i, j \in 1..n : i # j => f[i] # f[j]}

\* C10: every permutation of the item list gives the same subtotal,
\* taxAmount and totalAmount.
C10_OrderIndependent ==
  TotalsDone =>
    \A f \in ItemOrders(Len(args.items)) :
      calculateQuoteTotals([i \in 1..Len(args.items) |-> args.items[f[i]]],
                           args.taxRate, args.discountAmount) = result

\* ---------------------------------------------------------------------
\* calculatePrice on rules of every condition shape, at several clock times
\* ---------------------------------------------------------------------
MaxNow == 4
MaxQty == 4

\* the instants new Date() can return, and the quantities of a line
Times == 0..MaxNow

\* the clocks of n readings: time does not run backwards
ClocksOf(n) ==
  {clock \in [1..n -> Times] : \A i \in 1..(n - 1) : clock[i] <= clock[i + 1]}
Quantities == 0..MaxQty

TierConditions ==
  {[NoConditions EXCEPT !.min_qty = lo, !.max_qty = hi] :
     lo \in {Missing, <<NumZero>>, <<NumInt(2)>>}, hi \in {Missing, <<NumInt(3)>>}}

LevelConditions ==
  {[NoConditions EXCEPT !.level = l] :
     l \in {Missing, <<NULL>>, <<"">>, <<"vip">>, <<"normal">>}}

BundleConditions ==
  {[NoConditions EXCEPT !.product_ids = l] :
     l \in {Missing, << <<>> >>, << <<"p1">> >>, << <<"p2", "p1">> >>, << <<"p2">> >>}}

PromotionConditions ==
  {[NoConditions EXCEPT !.start_date = a, !.end_date = b] :
     a \in {Missing, <<1>>, <<3>>}, b \in {Missing, <<3>>, <<2>>}}

\* a tier rule that also carries dates, as the rows of pricing_rules do
DatedTierConditions ==
  [NoConditions EXCEPT !.min_qty = <<NumInt(2)>>, !.start_date = <<1>>, !.end_date = <<3>>]

ConditionsOf(ruleType) ==
  CASE ruleType = "tier" -> TierConditions \cup {DatedTierConditions}
    [] ruleType = "customer_level" -> LevelConditions
    [] ruleType = "bundle" -> BundleConditions
    [] ruleType = "promotion" -> PromotionConditions
    [] OTHER -> {NoConditions}

CustomerLevels == {"vip", "normal", "new"}
ProductIds == {"p1", "p2"}
RuleScopes == {NULL, "p1", "p2"} \X {NULL, "c1", "c2"}
ContextCategories == {"c1", NULL}

\* every rule of these calls takes 20.00 off, so that a rule that passed the
\* filter is an entry of appliedRules
MatchRule(ruleType, conditions, scope, isActive) ==
  [ruleType |-> ruleType, productId |-> scope[1], categoryId |-> scope[2],
   conditions |-> conditions, discountType |-> "fixed",
   discountValue |-> Dec2(2000), priority |-> 1, isActive |-> isActive]

\* the rule list built from these rules; a rule's id is its position
MatchRulesOf(templates) ==
  [i \in 1..Len(templates) |->
     [id |-> i, name |-> i,
      ruleType |-> templates[i].ruleType,
      productId |-> templates[i].productId,
      categoryId |-> templates[i].categoryId,
      conditions |-> templates[i].conditions,
      discountType |-> templates[i].discountType,
      discountValue |-> templates[i].discountValue,
      priority |-> templates[i].priority,
      isActive |-> templates[i].isActive]]

MatchContext(productId, categoryId, quantity, customerLevel) ==
  [productId |-> productId, categoryId |-> categoryId, quantity |-> NumInt(quantity),
   customerLevel |-> customerLevel, basePrice |-> Dec2(10000), orgId |-> "default"]

\* rules.filter(...) reads rule.conditions.<field> of every rule of a known
\* type that passed the scope test: a TypeError when conditions is absent
TypeError == [error |-> "TypeError"]

scopeMatches(rule, context) ==
  \/ ~Truthy(rule.productId) \/ rule.productId = context.productId
  \/ ~Truthy(rule.categoryId) \/ rule.categoryId = context.categoryId

ruleThrows(rule, context) ==
  /\ scopeMatches(rule, context)
  /\ rule.ruleType \in {"tier", "customer_level", "bundle", "promotion"}
  /\ ~Has(rule.conditions)

filterThrows(rules, context) ==
  \E i \in 1..Len(rules) : ruleThrows(rules[i], context)

calculatePriceOutcome(context, rules, clock) ==
  IF filterThrows(rules, context) THEN TypeError
  ELSE calculatePrice(context, rules, clock)

MatchCall(context, rules, clock) ==
  /\ op' = "calculatePrice"
  /\ args' = [context |-> context, rules |-> rules, clock |-> clock]
  /\ result' = calculatePriceOutcome(args'.context, args'.rules, args'.clock)
  /\ UNCHANGED stored

\* the rules of the two-rule lists
PairRules ==
  {MatchRule("tier", [NoConditions EXCEPT !.min_qty = <<NumInt(2)>>], <<NULL, NULL>>, TRUE),
   MatchRule("tier", [NoConditions EXCEPT !.min_qty = <<NumInt(2)>>], <<NULL, NULL>>, FALSE),
   MatchRule("customer_level", NoConditions, <<NULL, NULL>>, TRUE),
   MatchRule("bundle", NoConditions, <<NULL, NULL>>, TRUE),
   MatchRule("promotion", NoConditions, <<NULL, NULL>>, FALSE),
   MatchRule("promotion", [NoConditions EXCEPT !.start_date = <<1>>, !.end_date = <<3>>],
             <<NULL, NULL>>, TRUE),
   MatchRule("promotion", [NoConditions EXCEPT !.end_date = <<2>>], <<NULL, NULL>>, TRUE),
   MatchRule("tier", Missing, <<NULL, NULL>>, TRUE),
   MatchRule("tier", Missing, <<"p2", "c2">>, TRUE),
   MatchRule("seasonal", Missing, <<NULL, NULL>>, TRUE)}

\* one rule of each type and condition shape, on each context and at each time
CallCalculatePriceOnConditions ==
  /\ op = "idle"
  /\ \E now \in Times, q \in Quantities, l \in CustomerLevels, p \in ProductIds :
       \E t \in RuleTypes \cup {"seasonal"} :
         \E c \in ConditionsOf(t) \cup {Missing} :
           MatchCall(MatchContext(p, "c1", q, l),
                     MatchRulesOf(<<MatchRule(t, c, <<NULL, NULL>>, TRUE)>>), <<now>>)

\* one rule of each scope, on each product and category
CallCalculatePriceOnScopes ==
  /\ op = "idle"
  /\ \E p \in ProductIds, k \in ContextCategories, s \in RuleScopes :
       \E t \in {"tier", "seasonal"} :
         MatchCall(MatchContext(p, k, 2, "vip"),
                   MatchRulesOf(<<MatchRule(t, NoConditions, s, TRUE)>>), <<2>>)

\* lists of two rules, well formed or not
CallCalculatePriceOnPairs ==
  /\ op = "idle"
  /\ \E clock \in ClocksOf(2), templates \in [1..2 -> PairRules] :
       MatchCall(MatchContext("p1", "c1", 2, "vip"), MatchRulesOf(templates), clock)

NextMatch ==
  \/ CallCalculatePriceOnConditions
  \/ CallCalculatePriceOnScopes
  \/ CallCalculatePriceOnPairs
  \/ CallCalculateQuoteTotals
  \/ Return

SpecMatch == Init /\ [][NextMatch]_vars

\* ---------------------------------------------------------------------
\* actions/quotes: the server actions on the quotes of one organisation.
\* A server action that makes several database requests takes one step per
\* request, each request committed on its own, and other actions may run in
\* between; the response of an action is delivered when no response is
\* pending (op = "idle") and stays in op and result until the caller takes
\* it. The id of a quote is its position in quotes.
\* ---------------------------------------------------------------------
Respond(fn, response) ==
  /\ op = "idle"
  /\ op' = fn
  /\ args' = <<>>
  /\ result' = response

\* a step that gives no answer: the answer before it has been taken
NoAnswer == op = "idle" /\ UNCHANGED engine

Success == [success |-> TRUE]
Failure == [success |-> FALSE]

\* the amounts of a quote row
amountsOf(quote) ==
  [subtotal |-> quote.subtotal,
   discount_amount |-> quote.discount_amount,
   tax_rate |-> quote.tax_rate,
   tax_amount |-> quote.tax_amount,
   total_amount |-> quote.total_amount]

\* { data: null, error: ... } and { data: quote, error: null }; of the row
\* returned the amounts are kept
UpdateFailed == [data |-> NULL, error |-> "error"]
updated(quote) == [data |-> amountsOf(quote), error |-> NULL]

\* new Date().toISOString() written by an action
Timestamp(fn) == fn

MaxQuoteItems == 2

\* the calls of updateQuote there can be in one run
MaxUpdates == 2

\* the quote rows there can be: the quote created and its copies
MaxQuotes == 2

DEFAULT_TAX_RATE == Dec4(500)

\* x || y on numbers that may be undefined: 0 and undefined are falsy
OrElse(field, default) ==
  IF Has(field) /\ field[1] # NumZero THEN field[1] ELSE default

\* the items of the form, unit_price and quantity at the scale of their
\* DECIMAL(12, 2) columns
FormItems ==
  {[unitPrice |-> Dec2(i[1]), quantity |-> Dec2(i[2])] :
     i \in {<<9000, 2000>>, <<25, 50>>}}

\* tax_rate and discount_amount of the form: undefined or a number
FormTaxRates == {Missing, <<NumZero>>, <<Dec4(1000)>>}
FormDiscounts == {Missing, <<Dec2(10000)>>}

\* formData.valid_until, a DATE: the number of its day (the column holds
\* <<day>>, or <<>> when null)
ValidUntil == 1

\* the day of Date.now() when a quote is copied, and the days a copy is valid
CopyDay == 0
DEFAULT_QUOTE_VALIDITY_DAYS == 30

\* generateShareToken(): random and so unique; the token generated for the
\* quote of an id is modelled by that id
generateShareToken(id) == id

\* a quote below the seeded threshold and one above it
WorkflowItems ==
  {<<[unitPrice |-> Dec2(9000), quantity |-> Dec2(2000)]>>,
   <<[unitPrice |-> Dec2(6000000), quantity |-> Dec2(200)]>>}

\* the conversions to DECIMAL of the values the forms can hold, made once
LineTotals ==
  [item \in FormItems \cup {items[1] : items \in WorkflowItems} |->
     numeric(NumMul(item.unitPrice, item.quantity), 100)]
TaxRateUnits ==
  [rate \in {DEFAULT_TAX_RATE} \cup {rate[1] : rate \in FormTaxRates \ {Missing}} |->
     numeric(rate, 10000)]
DiscountUnits ==
  [amount \in {NumZero} \cup {amount[1] : amount \in FormDiscounts \ {Missing}} |->
     numeric(amount, 100)]

\* the item lists of the forms: up to MaxQuoteItems items, none of them twice
ItemLists ==
  {items \in UNION {[1..n -> FormItems] : n \in 0..MaxQuoteItems} :
     \A i, j \in DOMAIN items : items[i] = items[j] => i = j}

\* tax_rate and discount_amount of a form that replaces the items: neither
\* of them, or both
ReplaceForms == {<<Missing, Missing>>, <<<<Dec4(1000)>>, <<Dec2(10000)>>>>}

\* calculateQuoteTotals on the lists, rates and discounts the forms lead to
FormLists == ItemLists \cup WorkflowItems
FormTotals ==
  [call \in FormLists \X {DEFAULT_TAX_RATE, Dec4(1000)} \X {NumZero, Dec2(10000)} |->
     calculateQuoteTotals(call[1], call[2], call[3])]

quoteTotalsOf(items, taxRate, discountAmount) ==
  IF <<items, taxRate, discountAmount>> \in DOMAIN FormTotals
  THEN FormTotals[<<items, taxRate, discountAmount>>]
  ELSE calculateQuoteTotals(items, taxRate, discountAmount)

\* the value of a number in a DECIMAL(12, 2) column and in a DECIMAL(5, 4) one
lineTotalOf(item) ==
  IF item \in DOMAIN LineTotals THEN LineTotals[item]
  ELSE numeric(NumMul(item.unitPrice, item.quantity), 100)
taxRateOf(rate) ==
  IF rate \in DOMAIN TaxRateUnits THEN TaxRateUnits[rate] ELSE numeric(rate, 10000)
discountOf(amount) ==
  IF amount \in DOMAIN DiscountUnits THEN DiscountUnits[amount] ELSE numeric(amount, 100)

\* line_total: item.unit_price * item.quantity in a DECIMAL(12, 2) column
itemRow(item, quote_id) ==
  [quote_id |-> quote_id,
   unitPrice |-> item.unitPrice,
   quantity |-> item.quantity,
   line_total |-> lineTotalOf(item)]

itemRows(items, quote_id) == [i \in 1..Len(items) |-> itemRow(items[i], quote_id)]

\* .eq('quote_id', id) on quote_items, and the other rows
itemsOf(rows, quote_id) == SelectSeq(rows, LAMBDA row : row.quote_id = quote_id)
itemsNotOf(rows, quote_id) == SelectSeq(rows, LAMBDA row : row.quote_id # quote_id)

\* SUM(line_total) over the item rows of the quote, in hundredths
RECURSIVE SumLineTotals(_)
SumLineTotals(rows) ==
  IF rows = <<>> THEN 0 ELSE rows[1].line_total + SumLineTotals(Tail(rows))

\* sum * rate, in hundredths: its whole part and its fraction in
\* ten-thousandths of a hundredth
taxWhole(sum, rate) == (sum \div 10000) * rate + ((sum % 10000) * rate) \div 10000
taxFraction(sum, rate) == ((sum % 10000) * rate) % 10000

\* whole + fraction / 10000 rounded half away from zero
roundNumeric(whole, fraction) ==
  IF (whole >= 0 /\ fraction >= 5000) \/ fraction > 5000 THEN whole + 1 ELSE whole

\* the trigger on quote_items: subtotal = sum, tax_amount = sum * tax_rate,
\* total_amount = sum * (1 + tax_rate) - discount_amount
recalculatedTotals(quote, sum, rate, discount) ==
  [quote EXCEPT
     !.subtotal = Dec2(sum),
     !.tax_amount = Dec2(roundNumeric(taxWhole(sum, rate), taxFraction(sum, rate))),
     !.total_amount = Dec2(roundNumeric(sum - discount + taxWhole(sum, rate),
                                        taxFraction(sum, rate)))]

recalculate_quote_totals(quote, rows) ==
  recalculatedTotals(quote, SumLineTotals(rows),
                     taxRateOf(quote.tax_rate), discountOf(quote.discount_amount))

\* the quotes after a statement inserted or deleted item rows of quote id,
\* rows being the item rows after it: the trigger runs for every such row
afterItemsChanged(headers, id, rows) ==
  [headers EXCEPT ![id] = recalculate_quote_totals(@, itemsOf(rows, id))]

\* the quotes after the item rows of quote id were deleted: no row, no trigger
afterItemsDeleted(headers, id, rows) ==
  IF itemsOf(rows, id) = <<>> THEN headers
  ELSE afterItemsChanged(headers, id, <<>>)

\* the header row createQuote inserts
insertedQuote(totals, taxRate, discountAmount) ==
  [subtotal |-> totals.subtotal,
   discount_amount |-> discountAmount,
   tax_rate |-> taxRate,
   tax_amount |-> totals.taxAmount,
   total_amount |-> totals.totalAmount,
   status |-> "draft",
   requires_approval |-> FALSE,
   approved_at |-> NULL,
   approval_notes |-> NULL,
   valid_until |-> <<ValidUntil>>,
   accepted_at |-> NULL,
   notes |-> NULL,
   share_token |-> generateShareToken(1),
   is_deleted |-> FALSE]

createdQuote(items, taxRate, discountAmount) ==
  insertedQuote(quoteTotalsOf(items, taxRate, discountAmount),
                taxRate, discountAmount)

\* createQuote, the insert into quotes: the header with the totals of
\* calculateQuoteTotals; the call answers when there are no items
createQuote(c, taxRate, discountAmount, items) ==
  /\ free(c)
  /\ quotes = <<>>
  /\ quotes' = <<createdQuote(items, OrElse(taxRate, DEFAULT_TAX_RATE),
                              OrElse(discountAmount, NumZero))>>
  /\ IF items # <<>>
     THEN /\ calls' = [calls EXCEPT ![c] =
                        [fn |-> "createQuote", pc |-> "items", id |-> 1,
                         items |-> items, quote |-> amountsOf(quotes'[1])]]
          /\ NoAnswer
     ELSE /\ Respond("createQuote", updated(quotes'[1]))
          /\ UNCHANGED calls
  /\ UNCHANGED <<quote_items, settings, history, begun>>

\* if (quoteError) throw quoteError
CreateHeaderFails(c) ==
  /\ free(c)
  /\ quotes = <<>>
  /\ Respond("createQuote", UpdateFailed)
  /\ UNCHANGED stored

\* createQuote, the insert into quote_items; data is the header as inserted
CreateItemsDone(c) ==
  /\ calls[c].fn = "createQuote"
  /\ quote_items' = quote_items \o itemRows(calls[c].items, calls[c].id)
  /\ quotes' = afterItemsChanged(quotes, calls[c].id,
                                 quote_items \o itemRows(calls[c].items, calls[c].id))
  /\ calls' = [calls EXCEPT ![c] = NoCall]
  /\ Respond("createQuote", updated(calls[c].quote))
  /\ UNCHANGED <<settings, history, begun>>

\* if (itemsError) throw itemsError: the header stays, without items
CreateItemsFails(c) ==
  /\ calls[c].fn = "createQuote"
  /\ calls' = [calls EXCEPT ![c] = NoCall]
  /\ Respond("createQuote", UpdateFailed)
  /\ UNCHANGED <<quotes, quote_items, settings, history, begun>>

\* the requests of createQuote that follow, and the requests that come back
\* with an error
CreateQuoteSteps == \E c \in Callers : CreateItemsDone(c)
CreateQuoteFails == \E c \in Callers : CreateHeaderFails(c) \/ CreateItemsFails(c)

\* updateData = {...formData}: the fields of the form that are present
withFormData(quote, taxRate, discountAmount) ==
  [quote EXCEPT
     !.tax_rate = IF Has(taxRate) THEN taxRate[1] ELSE @,
     !.discount_amount = IF Has(discountAmount) THEN discountAmount[1] ELSE @]

withTotals(quote, totals) ==
  [quote EXCEPT !.subtotal = totals.subtotal,
                !.tax_amount = totals.taxAmount,
                !.total_amount = totals.totalAmount]

\* select('tax_rate').eq('id', id).single(), whose error is not looked at:
\* currentQuote is the row, or null when the request failed or found no row
currentQuoteOf(id, selected) ==
  IF selected /\ id \in 1..Len(quotes) THEN <<quotes[id]>> ELSE Missing

\* formData.tax_rate || currentQuote?.tax_rate || DEFAULT_TAX_RATE
updateTaxRate(currentQuote, taxRate) ==
  OrElse(taxRate,
         IF Has(currentQuote)
           THEN OrElse(<<currentQuote[1].tax_rate>>, DEFAULT_TAX_RATE)
           ELSE DEFAULT_TAX_RATE)

\* if (items): the totals of the new items at the tax rate read
updateTotals(currentQuote, taxRate, discountAmount, items) ==
  IF Has(items)
  THEN <<quoteTotalsOf(items[1], updateTaxRate(currentQuote, taxRate),
                       OrElse(discountAmount, NumZero))>>
  ELSE Missing

\* the rows as they are when a call begins, kept by the call
Rows ==
  <<[amounts |-> [id \in 1..Len(quotes) |-> amountsOf(quotes[id])],
     quote_items |-> quote_items]>>

\* updateQuote(id, formData, items), items undefined or a list: the call
\* begins, with the select of tax_rate when items are given (selected: the
\* request returned the row); before is Rows or nothing
updateQuote(c, id, taxRate, discountAmount, items, before, selected) ==
  /\ free(c)
  /\ id \in 1..Len(quotes)
  /\ calls' = [calls EXCEPT ![c] =
                 [fn |-> "updateQuote", pc |-> "header", id |-> id,
                  taxRate |-> taxRate, discountAmount |-> discountAmount,
                  items |-> items, quote |-> Missing,
                  totals |-> updateTotals(currentQuoteOf(id, selected), taxRate,
                                          discountAmount, items),
                  before |-> before]]
  /\ NoAnswer /\ UNCHANGED <<quotes, quote_items, settings, history>>

\* updateData: the form, and the totals if (totals)
updatedHeader(quote, call) ==
  IF Has(call.totals)
  THEN withTotals(withFormData(quote, call.taxRate, call.discountAmount), call.totals[1])
  ELSE withFormData(quote, call.taxRate, call.discountAmount)

\* the update of the header: if (quoteError) throw quoteError
UpdateHeaderFails(c) ==
  /\ calls[c].fn = "updateQuote" /\ calls[c].pc = "header"
  /\ calls' = [calls EXCEPT ![c] = NoCall]
  /\ Respond("updateQuote", UpdateFailed)
  /\ UNCHANGED <<quotes, quote_items, settings, history, begun>>

\* .eq('id', id).eq('is_deleted', false).select().single(): quote is the row
\* as updated
UpdateHeaderDone(c) ==
  /\ calls[c].fn = "updateQuote" /\ calls[c].pc = "header"
  /\ ~quotes[calls[c].id].is_deleted
  /\ quotes' = [quotes EXCEPT ![calls[c].id] = updatedHeader(@, calls[c])]
  /\ IF Has(calls[c].items)
     THEN /\ calls' = [calls EXCEPT
                        ![c].pc = "delete",
                        ![c].quote =
                          <<amountsOf(updatedHeader(quotes[calls[c].id], calls[c]))>>]
          /\ NoAnswer
     ELSE /\ calls' = [calls EXCEPT ![c] = NoCall]
          /\ Respond("updateQuote", updated(updatedHeader(quotes[calls[c].id], calls[c])))
  /\ UNCHANGED <<quote_items, settings, history, begun>>

\* the answer, or the insert still to come: if (items.length > 0)
afterDelete(c) ==
  IF calls[c].items[1] # <<>>
  THEN /\ calls' = [calls EXCEPT ![c].pc = "insert"]
       /\ NoAnswer
  ELSE /\ calls' = [calls EXCEPT ![c] = NoCall]
       /\ Respond("updateQuote", updated(calls[c].quote[1]))

\* the delete of the old items, whose result is not looked at
UpdateDeleteDone(c) ==
  /\ calls[c].fn = "updateQuote" /\ calls[c].pc = "delete"
  /\ quote_items' = itemsNotOf(quote_items, calls[c].id)
  /\ quotes' = afterItemsDeleted(quotes, calls[c].id, quote_items)
  /\ afterDelete(c)
  /\ UNCHANGED <<settings, history, begun>>

\* (the rows that pile up when the delete fails are kept to MaxQuoteItems)
UpdateDeleteFails(c) ==
  /\ calls[c].fn = "updateQuote" /\ calls[c].pc = "delete"
  /\ Len(quote_items) + Len(calls[c].items[1]) <= MaxQuoteItems
  /\ afterDelete(c)
  /\ UNCHANGED <<quotes, quote_items, settings, history, begun>>

\* the insert of the new items: if (itemsError) throw itemsError
UpdateInsertFails(c) ==
  /\ calls[c].fn = "updateQuote" /\ calls[c].pc = "insert"
  /\ calls' = [calls EXCEPT ![c] = NoCall]
  /\ Respond("updateQuote", UpdateFailed)
  /\ UNCHANGED <<quotes, quote_items, settings, history, begun>>

UpdateInsertDone(c) ==
  /\ calls[c].fn = "updateQuote" /\ calls[c].pc = "insert"
  /\ quote_items' = quote_items \o itemRows(calls[c].items[1], calls[c].id)
  /\ quotes' = afterItemsChanged(quotes, calls[c].id,
                                 quote_items \o itemRows(calls[c].items[1], calls[c].id))
  /\ calls' = [calls EXCEPT ![c] = NoCall]
  /\ Respond("updateQuote", updated(calls[c].quote[1]))
  /\ UNCHANGED <<settings, history, begun>>

UpdateQuoteSteps ==
  \E c \in Callers : UpdateHeaderDone(c) \/ UpdateDeleteDone(c) \/ UpdateInsertDone(c)

UpdateQuoteFails ==
  \E c \in Callers : UpdateHeaderFails(c) \/ UpdateDeleteFails(c) \/ UpdateInsertFails(c)

\* deleteQuote: update quotes set is_deleted = true where id
DeleteQuote ==
  /\ \E id \in 1..Len(quotes) : quotes' = [quotes EXCEPT ![id].is_deleted = TRUE]
  /\ NoAnswer /\ UNCHANGED <<quote_items, settings, calls, history, begun>>

\* updateQuoteStatus(id, status, notes): the status is written whatever the
\* status of the quote is; the statuses it is called with here
Statuses == {"approved", "cancelled"}

withStatus(quote, status, notes) ==
  [quote EXCEPT
     !.status = status,
     !.approved_at = IF status = "approved" THEN Timestamp("updateQuoteStatus") ELSE @,
     !.approval_notes = IF status = "approved" /\ notes # NULL THEN notes ELSE @,
     !.accepted_at = IF status = "accepted" THEN Timestamp("updateQuoteStatus") ELSE @]

UpdateQuoteStatus ==
  /\ \E id \in 1..Len(quotes), status \in Statuses, notes \in {NULL, "notes"} :
       quotes' = [quotes EXCEPT ![id] = withStatus(@, status, notes)]
  /\ NoAnswer /\ UNCHANGED <<quote_items, settings, calls, history, begun>>

\* duplicateQuote(id): the four requests of a copy of quote 1
duplicatesInFlight ==
  Cardinality({c \in Callers : calls[c].fn = "duplicateQuote"})

\* select * from quotes where id
DuplicateFetch(c) ==
  /\ free(c)
  /\ quotes # <<>>
  /\ Len(quotes) + duplicatesInFlight < MaxQuotes
  /\ calls' = [calls EXCEPT ![c] =
                 [fn |-> "duplicateQuote", pc |-> "items", original |-> quotes[1],
                  originalItems |-> <<>>, id |-> 0]]
  /\ NoAnswer /\ UNCHANGED <<quotes, quote_items, settings, history, begun>>

\* if (fetchError) throw fetchError
DuplicateFetchFails(c) ==
  /\ free(c)
  /\ Respond("duplicateQuote", UpdateFailed)
  /\ UNCHANGED <<quotes, quote_items, settings, calls, history, begun>>

\* select * from quote_items where quote_id, whose error is not looked at:
\* originalItems is null when the request fails, and nothing is copied
DuplicateItems(c) ==
  /\ calls[c].fn = "duplicateQuote" /\ calls[c].pc = "items"
  /\ \E selected \in BOOLEAN :
       calls' = [calls EXCEPT ![c].pc = "insert",
                              ![c].originalItems =
                                 IF selected THEN itemsOf(quote_items, 1) ELSE <<>>]
  /\ NoAnswer /\ UNCHANGED <<quotes, quote_items, settings, history, begun>>

\* the header row of the copy, id being the id it gets
duplicatedQuote(original, id) ==
  [original EXCEPT
     !.status = "draft",
     !.requires_approval = FALSE,
     !.approved_at = NULL,
     !.approval_notes = NULL,
     !.valid_until = <<CopyDay + DEFAULT_QUOTE_VALIDITY_DAYS>>,
     !.accepted_at = NULL,
     !.share_token = generateShareToken(id),
     !.is_deleted = FALSE]

\* insert into quotes: if (createError) throw createError
DuplicateInsertFails(c) ==
  /\ calls[c].fn = "duplicateQuote" /\ calls[c].pc = "insert"
  /\ calls' = [calls EXCEPT ![c] = NoCall]
  /\ Respond("duplicateQuote", UpdateFailed)
  /\ UNCHANGED <<quotes, quote_items, settings, history, begun>>

DuplicateInsert(c) ==
  /\ calls[c].fn = "duplicateQuote" /\ calls[c].pc = "insert"
  /\ quotes' = Append(quotes, duplicatedQuote(calls[c].original, Len(quotes) + 1))
  /\ IF calls[c].originalItems # <<>>
     THEN /\ calls' = [calls EXCEPT ![c].pc = "copy", ![c].id = Len(quotes) + 1]
          /\ NoAnswer
     ELSE /\ calls' = [calls EXCEPT ![c] = NoCall]
          /\ Respond("duplicateQuote", updated(calls[c].original))
  /\ UNCHANGED <<quote_items, settings, history, begun>>

\* the rows of the original with the quote_id of the copy
copiedItems(rows, quote_id) ==
  [i \in 1..Len(rows) |-> [rows[i] EXCEPT !.quote_id = quote_id]]

\* insert into quote_items, whose result is not looked at
DuplicateCopy(c) ==
  /\ calls[c].fn = "duplicateQuote" /\ calls[c].pc = "copy"
  /\ quote_items' = quote_items \o copiedItems(calls[c].originalItems, calls[c].id)
  /\ quotes' = afterItemsChanged(quotes, calls[c].id,
                   quote_items \o copiedItems(calls[c].originalItems, calls[c].id))
  /\ calls' = [calls EXCEPT ![c] = NoCall]
  /\ Respond("duplicateQuote", updated(calls[c].original))
  /\ UNCHANGED <<settings, history, begun>>

DuplicateCopyFails(c) ==
  /\ calls[c].fn = "duplicateQuote" /\ calls[c].pc = "copy"
  /\ calls' = [calls EXCEPT ![c] = NoCall]
  /\ Respond("duplicateQuote", updated(calls[c].original))
  /\ UNCHANGED <<quotes, quote_items, settings, history, begun>>

DuplicateQuote ==
  \E c \in Callers :
    \/ DuplicateFetch(c)
    \/ DuplicateFetchFails(c)
    \/ DuplicateItems(c)
    \/ DuplicateInsertFails(c)
    \/ DuplicateInsert(c)
    \/ DuplicateCopy(c)
    \/ DuplicateCopyFails(c)

\* createQuote and updateQuote with the fields of the form
CreateQuote ==
  \E c \in Callers, r \in FormTaxRates, d \in FormDiscounts, items \in ItemLists :
    createQuote(c, r, d, items)

\* updateQuote without items: the header fields of the form only
UpdateQuoteHeader ==
  /\ begun < MaxUpdates
  /\ begun' = begun + 1
  /\ \E c \in Callers, r \in FormTaxRates, d \in FormDiscounts :
       updateQuote(c, 1, r, d, Missing, Missing, TRUE)

\* updateQuote with items: totals recalculated, items replaced
UpdateQuoteItems ==
  /\ begun < MaxUpdates
  /\ begun' = begun + 1
  /\ \E c \in Callers, form \in ReplaceForms, items \in ItemLists,
        selected \in BOOLEAN :
       updateQuote(c, 1, form[1], form[2], <<items>>, Missing, selected)

NextQuotes ==
  \/ CreateQuote
  \/ CreateQuoteSteps
  \/ CreateQuoteFails
  \/ UpdateQuoteHeader
  \/ UpdateQuoteItems
  \/ UpdateQuoteSteps
  \/ UpdateQuoteFails
  \/ Return

SpecQuotes == Init /\ [][NextQuotes]_vars

\* ---------------------------------------------------------------------
\* actions/quotes, actions/approvals, actions/settings: the approval
\* workflow of one quote
\* ---------------------------------------------------------------------
CreateWorkflowQuote ==
  \/ \E c \in Callers, items \in WorkflowItems : createQuote(c, Missing, Missing, items)
  \/ CreateQuoteSteps

UpdateWorkflowQuote ==
  \/ /\ \E c \in Callers, items \in WorkflowItems :
            updateQuote(c, 1, Missing, Missing, <<items>>, Missing, TRUE)
     /\ UNCHANGED begun
  \/ UpdateQuoteSteps

\* the approval settings there can be, and the thresholds of the form
MaxSettings == 2
SettingThresholds == {Dec2(100000)}

\* createApprovalSetting(formData): is_active: formData.is_active ?? true
CreateApprovalSetting ==
  /\ Len(approval_settings) < MaxSettings
  /\ \E threshold \in SettingThresholds, active \in {Missing, <<TRUE>>, <<FALSE>>} :
       approval_settings' =
         Append(approval_settings,
                [threshold_amount |-> threshold,
                 is_active |-> IF Has(active) THEN active[1] ELSE TRUE,
                 is_deleted |-> FALSE])
  /\ NoAnswer /\ UNCHANGED <<quotes, quote_items, quote_templates, calls, history, begun>>

\* update({...formData}): the fields of the form that are present
withSettingData(setting, threshold, active) ==
  [setting EXCEPT
     !.threshold_amount = IF Has(threshold) THEN threshold[1] ELSE @,
     !.is_active = IF Has(active) THEN active[1] ELSE @]

\* updateApprovalSetting(id, formData), formData a part of the form
UpdateApprovalSetting ==
  /\ \E id \in 1..Len(approval_settings),
        threshold \in {Missing} \cup {<<t>> : t \in SettingThresholds},
        active \in {Missing, <<TRUE>>, <<FALSE>>} :
       approval_settings' =
         [approval_settings EXCEPT ![id] = withSettingData(@, threshold, active)]
  /\ NoAnswer /\ UNCHANGED <<quotes, quote_items, quote_templates, calls, history, begun>>

DeleteApprovalSetting ==
  /\ \E id \in 1..Len(approval_settings) :
       approval_settings' = [approval_settings EXCEPT ![id].is_deleted = TRUE]
  /\ NoAnswer /\ UNCHANGED <<quotes, quote_items, quote_templates, calls, history, begun>>

\* submitForApproval: select status, total_amount; quote is null when no
\* row is found and when the request fails (its error is not read)
SubmitRead(c) ==
  /\ free(c)
  /\ \E selected \in BOOLEAN :
       IF ~selected \/ quotes = <<>> \/ quotes[1].status # "draft"
       THEN /\ Respond("submitForApproval", Failure)
            /\ UNCHANGED calls
       ELSE /\ calls' = [calls EXCEPT ![c] = [fn |-> "submitForApproval", pc |-> "settings",
                                              total_amount |-> quotes[1].total_amount]]
            /\ NoAnswer
  /\ UNCHANGED <<quotes, quote_items, settings, history, begun>>

\* select threshold_amount from approval_settings where is_active
needsApprovalOf(rows, total_amount) ==
  \E i \in 1..Len(rows) :
    rows[i].is_active /\ NumGe(total_amount, rows[i].threshold_amount)

\* settings?.some(...): <<true>> or <<false>>, and undefined when the
\* request fails (settings is null, its error is not read)
SubmitSettings(c) ==
  /\ calls[c].fn = "submitForApproval"
  /\ calls[c].pc = "settings"
  /\ \E selected \in BOOLEAN :
       calls' = [calls EXCEPT ![c] =
                   [fn |-> "submitForApproval", pc |-> "update",
                    needsApproval |->
                      IF selected
                      THEN <<needsApprovalOf(approval_settings, calls[c].total_amount)>>
                      ELSE Missing]]
  /\ NoAnswer /\ UNCHANGED <<quotes, quote_items, settings, history, begun>>

\* needsApproval ? ... : ..., undefined being falsy
isNeeded(needsApproval) == Has(needsApproval) /\ needsApproval[1]

\* the update: a requires_approval that is undefined is left out of the
\* request, and the column keeps its value
submittedQuote(quote, needsApproval) ==
  [quote EXCEPT
     !.status = IF isNeeded(needsApproval) THEN "pending_approval" ELSE "approved",
     !.requires_approval = IF Has(needsApproval) THEN needsApproval[1] ELSE @,
     !.approved_at = IF isNeeded(needsApproval) THEN @ ELSE Timestamp("submitForApproval")]

\* update quotes set status, requires_approval where id; if (error) throw
\* error, answered by the catch
SubmitUpdate(c) ==
  /\ calls[c].fn = "submitForApproval"
  /\ calls[c].pc = "update"
  /\ \/ /\ quotes' = IF quotes = <<>> THEN quotes
                     ELSE [quotes EXCEPT ![1] = submittedQuote(@, calls[c].needsApproval)]
        /\ Respond("submitForApproval", Success)
     \/ /\ UNCHANGED quotes
        /\ Respond("submitForApproval", Failure)
  /\ calls' = [calls EXCEPT ![c] = NoCall]
  /\ UNCHANGED <<quote_items, settings, history, begun>>

\* an update of the quote whatever its status
isStored(rows) == rows # <<>>

\* .eq('id', id).eq('status', 'pending_approval'): the row the update matches
isPendingApproval(rows) == rows # <<>> /\ rows[1].status = "pending_approval"

\* approval_notes: notes || null
ApprovalNotes == {NULL, "notes"}

\* approveQuote: one update ... where status = 'pending_approval'
approvedQuote(quote, notes) ==
  [quote EXCEPT !.status = "approved",
                !.approved_at = Timestamp("approveQuote"),
                !.approval_notes = notes]

\* the update matches the pending quote or no row, and success is answered;
\* or the request fails: if (error) throw error, answered by the catch
ApproveQuote ==
  /\ \/ /\ IF isPendingApproval(quotes)
           THEN /\ \E notes \in ApprovalNotes :
                     quotes' = [quotes EXCEPT ![1] = approvedQuote(@, notes)]
                /\ history' = history \cup {"approveQuote"}
           ELSE UNCHANGED <<quotes, history>>
        /\ Respond("approveQuote", Success)
     \/ /\ UNCHANGED <<quotes, history>>
        /\ Respond("approveQuote", Failure)
  /\ UNCHANGED <<quote_items, settings, calls, begun>>

rejectedQuote(quote) ==
  [quote EXCEPT !.status = "draft",
                !.approved_at = Timestamp("rejectQuote"),
                !.approval_notes = "reason"]

RejectQuote ==
  /\ \/ /\ IF isPendingApproval(quotes)
           THEN quotes' = [quotes EXCEPT ![1] = rejectedQuote(@)]
           ELSE UNCHANGED quotes
        /\ Respond("rejectQuote", Success)
     \/ /\ UNCHANGED quotes
        /\ Respond("rejectQuote", Failure)
  /\ UNCHANGED <<quote_items, settings, calls, history, begun>>

\* sendToCustomer: select status, share_token; quote is null when no row is
\* found and when the request fails (its error is not read)
SendRead(c) ==
  /\ free(c)
  /\ \E selected \in BOOLEAN :
       IF ~selected \/ quotes = <<>> \/ quotes[1].status \notin {"approved", "sent"}
       THEN /\ Respond("sendToCustomer", Failure)
            /\ UNCHANGED calls
       ELSE /\ calls' = [calls EXCEPT ![c] = [fn |-> "sendToCustomer", pc |-> "update"]]
            /\ NoAnswer
  /\ UNCHANGED <<quotes, quote_items, settings, history, begun>>

\* update quotes set status = 'sent' where id; if (error) throw error,
\* answered by the catch
SendUpdate(c) ==
  /\ calls[c].fn = "sendToCustomer"
  /\ calls[c].pc = "update"
  /\ \/ /\ quotes' = IF quotes = <<>> THEN quotes ELSE [quotes EXCEPT ![1].status = "sent"]
        /\ Respond("sendToCustomer", Success)
     \/ /\ UNCHANGED quotes
        /\ Respond("sendToCustomer", Failure)
  /\ calls' = [calls EXCEPT ![c] = NoCall]
  /\ UNCHANGED <<quote_items, settings, history, begun>>

SubmitForApproval == \E c \in Callers : SubmitRead(c) \/ SubmitSettings(c) \/ SubmitUpdate(c)
SendToCustomer == \E c \in Callers : SendRead(c) \/ SendUpdate(c)

NextWorkflow ==
  \/ CreateWorkflowQuote
  \/ CreateApprovalSetting
  \/ UpdateApprovalSetting
  \/ DeleteApprovalSetting
  \/ SubmitForApproval
  \/ ApproveQuote
  \/ RejectQuote
  \/ SendToCustomer
  \/ Return

SpecWorkflow == Init /\ [][NextWorkflow]_vars

\* the same with the approval settings left as seeded
NextApproval ==
  \/ CreateWorkflowQuote
  \/ UpdateWorkflowQuote
  \/ SubmitForApproval
  \/ ApproveQuote
  \/ RejectQuote
  \/ SendToCustomer
  \/ Return

SpecApproval == Init /\ [][NextApproval]_vars

\* ---------------------------------------------------------------------
\* actions/quotes: updateQuote on a quote that may have been deleted, any
\* request of which may come back with an error
\* ---------------------------------------------------------------------
\* the tax_rate of the form, and its items (undefined, or a list)
UpdateTaxRates == {Missing, <<Dec4(1000)>>}
UpdateItems == {Missing, <<<<>>>>} \cup {<<items>> : items \in WorkflowItems}

\* a call of updateQuote begins, whatever calls are in progress
UpdateBegin ==
  /\ begun < MaxUpdates
  /\ begun' = begun + 1
  /\ \E c \in Callers, taxRate \in UpdateTaxRates, items \in UpdateItems,
        selected \in BOOLEAN :
       updateQuote(c, 1, taxRate, Missing, items, Rows, selected)

NextUpdate ==
  \/ CreateWorkflowQuote
  \/ CreateQuoteFails
  \/ UpdateBegin
  \/ UpdateQuoteSteps
  \/ UpdateQuoteFails
  \/ UpdateQuoteStatus
  \/ DeleteQuote
  \/ Return

SpecUpdate == Init /\ [][NextUpdate]_vars

\* ---------------------------------------------------------------------
\* actions/templates: one step for each database request
\* ---------------------------------------------------------------------
MaxTemplates == 3

\* .update({ is_default: false }).eq('org_id', orgId)
unsetDefaults(rows) == [i \in 1..Len(rows) |-> [rows[i] EXCEPT !.is_default = FALSE]]

\* .update({ is_default }).eq('id', id).eq('org_id', orgId)
withDefault(rows, id, isDefault) ==
  [i \in 1..Len(rows) |-> IF i = id THEN [rows[i] EXCEPT !.is_default = isDefault]
                                      ELSE rows[i]]

\* { data, error: null } and { data: null, error: ... }
TemplateData == [data |-> "template", error |-> NULL]
TemplateFailed == [data |-> NULL, error |-> "error"]

\* await ...update({ is_default: false }), whose result is not looked at:
\* the rows when the request has been carried out, and when it has failed
afterUnset(rows, done) == IF done THEN unsetDefaults(rows) ELSE rows

\* createTemplate with is_default set: the defaults are unset first
CreateTemplateUnset(c) ==
  /\ free(c)
  /\ Len(quote_templates) < MaxTemplates
  /\ \E done \in BOOLEAN : quote_templates' = afterUnset(quote_templates, done)
  /\ calls' = [calls EXCEPT ![c] = [fn |-> "createTemplate", pc |-> "insert"]]
  /\ NoAnswer
  /\ UNCHANGED <<quotes, quote_items, approval_settings, history, begun>>

\* the insert: of a default template after the unset, of another at once;
\* if (error) throw error, answered by the catch
CreateTemplateInsert(c) ==
  /\ Len(quote_templates) < MaxTemplates
  /\ \E isDefault \in BOOLEAN :
       /\ IF isDefault THEN calls[c].fn = "createTemplate" ELSE free(c)
       /\ \/ /\ quote_templates' =
                  Append(quote_templates, [is_default |-> isDefault, is_deleted |-> FALSE])
             /\ Respond("createTemplate", TemplateData)
          \/ /\ UNCHANGED quote_templates
             /\ Respond("createTemplate", TemplateFailed)
  /\ calls' = [calls EXCEPT ![c] = NoCall]
  /\ UNCHANGED <<quotes, quote_items, approval_settings, history, begun>>

\* updateTemplate with is_default: true in the form
UpdateTemplateUnset(c) ==
  /\ free(c)
  /\ \E id \in 1..Len(quote_templates) :
       calls' = [calls EXCEPT ![c] = [fn |-> "updateTemplate", pc |-> "update", id |-> id]]
  /\ \E done \in BOOLEAN : quote_templates' = afterUnset(quote_templates, done)
  /\ NoAnswer
  /\ UNCHANGED <<quotes, quote_items, approval_settings, history, begun>>

\* the update of the row: {...formData}, with is_default true after the
\* unset, and otherwise false or not in the form; if (error) throw error,
\* answered by the catch
UpdateTemplateRow(c) ==
  /\ \/ /\ \/ /\ calls[c].fn = "updateTemplate"
              /\ quote_templates' = withDefault(quote_templates, calls[c].id, TRUE)
           \/ /\ free(c)
              /\ \E id \in 1..Len(quote_templates) :
                   \/ quote_templates' = withDefault(quote_templates, id, FALSE)
                   \/ quote_templates' = quote_templates
        /\ Respond("updateTemplate", TemplateData)
     \/ /\ calls[c].fn = "updateTemplate" \/ (free(c) /\ quote_templates # <<>>)
        /\ UNCHANGED quote_templates
        /\ Respond("updateTemplate", TemplateFailed)
  /\ calls' = [calls EXCEPT ![c] = NoCall]
  /\ UNCHANGED <<quotes, quote_items, approval_settings, history, begun>>

\* setDefaultTemplate: unset all defaults, then set the new one
SetDefaultUnset(c) ==
  /\ free(c)
  /\ \E id \in 1..Len(quote_templates) :
       calls' = [calls EXCEPT ![c] = [fn |-> "setDefaultTemplate", pc |-> "set", id |-> id]]
  /\ \E done \in BOOLEAN : quote_templates' = afterUnset(quote_templates, done)
  /\ NoAnswer
  /\ UNCHANGED <<quotes, quote_items, approval_settings, history, begun>>

\* the set: if (error) throw error, answered by the catch
SetDefaultSet(c) ==
  /\ calls[c].fn = "setDefaultTemplate"
  /\ \/ /\ quote_templates' = withDefault(quote_templates, calls[c].id, TRUE)
        /\ Respond("setDefaultTemplate", Success)
     \/ /\ UNCHANGED quote_templates
        /\ Respond("setDefaultTemplate", Failure)
  /\ calls' = [calls EXCEPT ![c] = NoCall]
  /\ UNCHANGED <<quotes, quote_items, approval_settings, history, begun>>

\* deleteTemplate: is_deleted and deleted_at only; if (error) throw error,
\* answered by the catch
DeleteTemplate ==
  /\ \E id \in 1..Len(quote_templates) :
       \/ /\ quote_templates' = [quote_templates EXCEPT ![id].is_deleted = TRUE]
          /\ Respond("deleteTemplate", Success)
       \/ /\ UNCHANGED quote_templates
          /\ Respond("deleteTemplate", Failure)
  /\ UNCHANGED calls
  /\ UNCHANGED <<quotes, quote_items, approval_settings, history, begun>>

CreateTemplate == \E c \in Callers : CreateTemplateUnset(c) \/ CreateTemplateInsert(c)
UpdateTemplate == \E c \in Callers : UpdateTemplateUnset(c) \/ UpdateTemplateRow(c)
SetDefaultTemplate == \E c \in Callers : SetDefaultUnset(c) \/ SetDefaultSet(c)

NextTemplates ==
  \/ CreateTemplate
  \/ UpdateTemplate
  \/ SetDefaultTemplate
  \/ DeleteTemplate
  \/ Return

SpecTemplates == Init /\ [][NextTemplates]_vars

\* ---------------------------------------------------------------------
\* actions/cloud-products: the customer's answer through the public link
\* ---------------------------------------------------------------------
\* instants count half days: a DATE denotes its midnight
MaxInstant == 4
Instants == 1..MaxInstant
dateInstant(day) == 2 * day

\* the tokens a customer can come with: 0 is the token of no quote
Tokens == 0..MaxQuotes

\* quote.valid_until && new Date(quote.valid_until) < new Date()
isExpired(valid_until, now) ==
  Has(valid_until) /\ dateInstant(valid_until[1]) < now

\* .eq('share_token', token).eq('is_deleted', false).single(): the ids of
\* the rows found
foundByToken(token) ==
  {id \in 1..Len(quotes) : quotes[id].share_token = token /\ ~quotes[id].is_deleted}

\* the read of acceptQuoteByToken and its checks on the row read
AcceptRead(c) ==
  /\ free(c)
  /\ \E token \in Tokens, now \in Instants :
       \/ \E id \in foundByToken(token) :
            /\ quotes[id].status = "sent"
            /\ ~isExpired(quotes[id].valid_until, now)
            /\ calls' = [calls EXCEPT ![c] =
                           [fn |-> "acceptQuoteByToken", pc |-> "update", id |-> id,
                            status |-> quotes[id].status,
                            valid_until |-> quotes[id].valid_until,
                            now |-> now]]
            /\ NoAnswer
       \/ /\ \A id \in foundByToken(token) :
               \/ quotes[id].status # "sent"
               \/ isExpired(quotes[id].valid_until, now)
          /\ Respond("acceptQuoteByToken", Failure)
          /\ UNCHANGED calls
  /\ UNCHANGED <<quotes, quote_items, settings, history, begun>>

acceptedQuote(quote) ==
  [quote EXCEPT !.status = "accepted",
                !.accepted_at = Timestamp("acceptQuoteByToken")]

\* the update of acceptQuoteByToken: .eq('id', quote.id) and nothing else;
\* if (updateError) throw updateError, answered by the catch
AcceptUpdate(c) ==
  /\ calls[c].fn = "acceptQuoteByToken"
  /\ \/ /\ quotes' = [quotes EXCEPT ![calls[c].id] = acceptedQuote(@)]
        /\ history' = history \cup {"acceptQuoteByToken"}
        /\ Respond("acceptQuoteByToken", Success)
     \/ /\ UNCHANGED <<quotes, history>>
        /\ Respond("acceptQuoteByToken", Failure)
  /\ calls' = [calls EXCEPT ![c] = NoCall]
  /\ UNCHANGED <<quote_items, settings, begun>>

\* the read of rejectQuoteByToken and its check on the row read
RejectRead(c) ==
  /\ free(c)
  /\ \E token \in Tokens :
       \/ \E id \in foundByToken(token) :
            /\ quotes[id].status = "sent"
            /\ calls' = [calls EXCEPT ![c] =
                           [fn |-> "rejectQuoteByToken", pc |-> "update", id |-> id,
                            status |-> quotes[id].status]]
            /\ NoAnswer
       \/ /\ \A id \in foundByToken(token) : quotes[id].status # "sent"
          /\ Respond("rejectQuoteByToken", Failure)
          /\ UNCHANGED calls
  /\ UNCHANGED <<quotes, quote_items, settings, history, begun>>

\* notes: reason ? `...${reason}` : null
Reasons == {NULL, "reason"}

customerRejectedQuote(quote, reason) ==
  [quote EXCEPT !.status = "rejected", !.notes = reason]

\* the update of rejectQuoteByToken: .eq('id', quote.id) and nothing else;
\* if (updateError) throw updateError, answered by the catch
RejectUpdate(c) ==
  /\ calls[c].fn = "rejectQuoteByToken"
  /\ \/ /\ \E reason \in Reasons :
             quotes' = [quotes EXCEPT ![calls[c].id] = customerRejectedQuote(@, reason)]
        /\ history' = history \cup {"rejectQuoteByToken"}
        /\ Respond("rejectQuoteByToken", Success)
     \/ /\ UNCHANGED <<quotes, history>>
        /\ Respond("rejectQuoteByToken", Failure)
  /\ calls' = [calls EXCEPT ![c] = NoCall]
  /\ UNCHANGED <<quote_items, settings, begun>>

AcceptQuoteByToken == \E c \in Callers : AcceptRead(c) \/ AcceptUpdate(c)
RejectQuoteByToken == \E c \in Callers : RejectRead(c) \/ RejectUpdate(c)

\* the quote as createQuote and the trigger of its items leave it
draftQuote(items) ==
  recalculate_quote_totals(createdQuote(items, DEFAULT_TAX_RATE, NumZero),
                           itemRows(items, 1))

\* the quote after submitForApproval under the seeded setting, and after
\* approveQuote when it was routed to approval
submitted(quote) ==
  submittedQuote(quote, <<needsApprovalOf(SeededSettings, quote.total_amount)>>)

approved(quote) ==
  IF submitted(quote).status = "pending_approval"
  THEN approvedQuote(submitted(quote), NULL)
  ELSE submitted(quote)

\* the quote createQuote stored, as the workflow stores it in the status;
\* 'cancelled' and 'expired' as updateQuoteStatus stores them on a draft
storedQuote(items, status) ==
  CASE status = "draft" -> draftQuote(items)
    [] status = "pending_approval" -> submitted(draftQuote(items))
    [] status = "approved" -> approved(draftQuote(items))
    [] status = "sent" -> [approved(draftQuote(items)) EXCEPT !.status = "sent"]
    [] OTHER -> withStatus(draftQuote(items), status, NULL)

\* the statuses a stored quote is opened in ('accepted' and 'rejected' are
\* stored by the answers themselves)
StoredStatuses ==
  {"draft", "pending_approval", "approved", "sent", "cancelled", "expired"}

\* valid_until as createQuote stored it, or null after
\* updateQuote(id, {valid_until: null})
StoredValidUntil == {<<ValidUntil>>, <<>>}

\* the customer opens the link of a quote that is stored: sent, or not yet
InitToken ==
  /\ op = "idle" /\ args = <<>> /\ result = <<>>
  /\ \E items \in WorkflowItems, status \in StoredStatuses,
        valid_until \in StoredValidUntil :
       /\ storedQuote(items, status).status = status
       /\ quotes = <<[storedQuote(items, status) EXCEPT !.valid_until = valid_until]>>
       /\ quote_items = itemRows(items, 1)
  /\ approval_settings = SeededSettings
  /\ quote_templates = SeededTemplates
  /\ calls = [c \in Callers |-> NoCall]
  /\ history = {}
  /\ begun = 0

NextToken ==
  \/ AcceptQuoteByToken
  \/ RejectQuoteByToken
  \/ DuplicateQuote
  \/ DeleteQuote
  \/ Return

SpecToken == InitToken /\ [][NextToken]_vars

\* ---------------------------------------------------------------------
\* Properties of the filter
\* ---------------------------------------------------------------------
Threw == result = TypeError
PriceReturned == PriceDone /\ ~Threw

\* the one rule of a single-rule call, and whether it was applied
OneRule == PriceDone /\ Len(args.rules) = 1
TheRule == args.rules[1]
Applied(ruleId) ==
  \E i \in 1..Len(result.appliedRules) : result.appliedRules[i].ruleId = ruleId

\* C11: a call of calculatePrice made again with the same context and the
\* same rule list, at whatever time, returns the same result.
\* (calculateQuoteTotals reads nothing but its arguments, part_009:271-284,
\* which the operator that models it has by construction: the formula is
\* about calculatePrice, the one of the two that reads the clock.)
C11_Deterministic ==
  PriceDone =>
    \A clock \in ClocksOf(Len(args.clock)) :
      calculatePriceOutcome(args.context, args.rules, clock) = result

\* C13: calculatePrice applies no rule whose isActive is false, whatever the
\* list it is given.
C13_InactiveNeverApplied ==
  PriceReturned =>
    \A i \in 1..Len(args.rules) : ~args.rules[i].isActive => ~Applied(args.rules[i].id)

\* C14: calculatePrice returns a PricingResult and raises no error, whatever
\* the rule list: unknown rule or discount types, conditions that are empty,
\* absent or without the fields of their type.
C14_NeverThrows ==
  PriceDone => ~Threw

\* the conditions of the one rule are an object, and the call returned
OneRuleReturned == OneRule /\ Has(TheRule.conditions) /\ PriceReturned
OneRuleOfType(ruleType) == OneRuleReturned /\ TheRule.ruleType = ruleType

\* the scope fields as the specification reads them
Unset(v) == v = NULL
ProductScopeHolds == Unset(TheRule.productId) \/ TheRule.productId = args.context.productId
CategoryScopeHolds == Unset(TheRule.categoryId) \/ TheRule.categoryId = args.context.categoryId

\* the one rule is in both scopes of the context
InScope == OneRuleReturned /\ ProductScopeHolds /\ CategoryScopeHolds

\* the one rule is of a type, or has conditions, that every context satisfies
Unconditional ==
  /\ OneRuleReturned
  /\ TheRule.ruleType \in {"tier", "seasonal"}
  /\ TheRule.conditions = NoConditions

\* the one rule passed the filter; of the four types of the loop, it is then
\* an entry of appliedRules
Passed == Len(Applicable) = 1

\* C15: a rule passes the scope step iff its productId is unset or equals the
\* context's, or its categoryId is unset or equals the context's; it is
\* excluded by scope only when both are set and both differ.
C15_ScopeIsOr ==
  Unconditional =>
    /\ Passed <=> (ProductScopeHolds \/ CategoryScopeHolds)
    /\ ~Passed <=>
         /\ ~Unset(TheRule.productId) /\ TheRule.productId # args.context.productId
         /\ ~Unset(TheRule.categoryId) /\ TheRule.categoryId # args.context.categoryId
    /\ TheRule.ruleType = "tier" => (Applied(1) <=> Passed)

\* a rule for another product and for the category of the context is applied
C15_Witness ==
  /\ Unconditional
  /\ TheRule.productId = "p2" /\ args.context.productId = "p1"
  /\ TheRule.categoryId = "c1" /\ args.context.categoryId = "c1"
  /\ Applied(1)

\* the quantity of the context and the bounds of a tier rule, as integers
QtyOf(num) == CHOOSE q \in Quantities : NumInt(q) = num
StatedMinQty == IF Has(TheRule.conditions.min_qty) THEN QtyOf(TheRule.conditions.min_qty[1]) ELSE 0

\* C16: a tier rule matches iff quantity >= min_qty (0 when missing) and
\* max_qty is unset or quantity <= max_qty.
C16_TierMatch ==
  (OneRuleOfType("tier") /\ InScope) =>
    (Applied(1) <=>
       /\ QtyOf(args.context.quantity) >= StatedMinQty
       /\ \/ ~Has(TheRule.conditions.max_qty)
          \/ QtyOf(args.context.quantity) <= QtyOf(TheRule.conditions.max_qty[1]))

\* a tier rule from 2 without upper bound applied at quantity 2 and at the
\* largest quantity
C16_Witness ==
  /\ OneRuleOfType("tier")
  /\ TheRule.conditions = [NoConditions EXCEPT !.min_qty = <<NumInt(2)>>]
  /\ args.context.quantity \in {NumInt(2), NumInt(MaxQty)}
  /\ Applied(1)

\* C17: a customer_level rule matches iff conditions.level is unset or equals
\* the customer's level; a rule for vip matches no normal or new customer.
C17_LevelMatch ==
  (OneRuleOfType("customer_level") /\ InScope) =>
    /\ Applied(1) <=>
         \/ ~Has(TheRule.conditions.level)
         \/ TheRule.conditions.level[1] \in {NULL, ""}
         \/ TheRule.conditions.level[1] = args.context.customerLevel
    /\ (Has(TheRule.conditions.level) /\ TheRule.conditions.level[1] = "vip"
          /\ args.context.customerLevel \in {"normal", "new"}) => ~Applied(1)

\* a rule without level applied to a new customer
C17_Witness ==
  /\ OneRuleOfType("customer_level")
  /\ ~Has(TheRule.conditions.level)
  /\ args.context.customerLevel = "new"
  /\ Applied(1)

\* C18: a bundle rule matches iff conditions.product_ids is a non-empty list
\* containing the product; with a missing or empty list it never matches and
\* leaves the price as it is.
C18_BundleMatch ==
  (OneRuleOfType("bundle") /\ InScope) =>
    /\ Applied(1) <=>
         /\ Has(TheRule.conditions.product_ids)
         /\ TheRule.conditions.product_ids[1] # <<>>
         /\ \E i \in DOMAIN TheRule.conditions.product_ids[1] :
              TheRule.conditions.product_ids[1][i] = args.context.productId
    /\ (~Has(TheRule.conditions.product_ids) \/ TheRule.conditions.product_ids[1] = <<>>) =>
         /\ result.appliedRules = <<>>
         /\ result.unitPrice = args.context.basePrice
         /\ result.discountAmount = NumZero

\* a bundle whose second product is the product of the context
C18_Witness ==
  /\ OneRuleOfType("bundle")
  /\ TheRule.conditions.product_ids = << <<"p2", "p1">> >>
  /\ args.context.productId = "p1"
  /\ Applied(1)

\* C19: a promotion rule matches iff the current time is in
\* [start_date, end_date], both bounds included, an absent bound being
\* unbounded.
C19_PromotionWindow ==
  (OneRuleOfType("promotion") /\ InScope) =>
    (Applied(1) <=>
       /\ ~Has(TheRule.conditions.start_date) \/ TheRule.conditions.start_date[1] <= args.clock[1]
       /\ ~Has(TheRule.conditions.end_date) \/ args.clock[1] <= TheRule.conditions.end_date[1])

\* a promotion applied at the instant of its end date
C19_Witness ==
  /\ OneRuleOfType("promotion")
  /\ TheRule.conditions.start_date = <<1>>
  /\ TheRule.conditions.end_date = <<3>>
  /\ args.clock = <<3>>
  /\ Applied(1)

\* the field (or fields) of its type that the one rule lacks
LacksTypeField ==
  \/ TheRule.ruleType = "tier" /\ ~Has(TheRule.conditions.min_qty)
  \/ TheRule.ruleType = "customer_level" /\ ~Has(TheRule.conditions.level)
  \/ TheRule.ruleType = "bundle" /\ ~Has(TheRule.conditions.product_ids)
  \/ /\ TheRule.ruleType = "promotion"
     /\ ~Has(TheRule.conditions.start_date)
     /\ ~Has(TheRule.conditions.end_date)

\* C20 (as stated): a rule that lacks the condition field of its type is
\* excluded by the filter, without error.
C20_MissingFieldExcluded ==
  (OneRule /\ Has(TheRule.conditions) /\ LacksTypeField) =>
    /\ ~Threw
    /\ ~Applied(1)

\* C20 (amended): such a rule raises no error; a bundle rule without
\* product_ids is excluded, while a tier rule without min_qty matches from
\* quantity 0, a customer_level rule without level matches every level and a
\* promotion rule without dates matches at every time.
C20_MissingFieldDefaults ==
  (OneRule /\ Has(TheRule.conditions) /\ LacksTypeField) =>
    /\ ~Threw
    /\ InScope =>
         CASE TheRule.ruleType = "bundle" -> ~Applied(1)
           [] TheRule.ruleType = "tier" ->
                (Applied(1) <=>
                   \/ ~Has(TheRule.conditions.max_qty)
                   \/ QtyOf(args.context.quantity) <= QtyOf(TheRule.conditions.max_qty[1]))
           [] OTHER -> Applied(1)

\* a tier rule with empty conditions applied at quantity 0
C20_Witness ==
  /\ OneRuleOfType("tier")
  /\ TheRule.conditions = NoConditions
  /\ args.context.quantity = NumZero
  /\ Applied(1)

\* C12: after any sequence of createQuote and updateQuote calls (none of
\* them still in flight) the stored header agrees with the stored items: tax_amount is
\* round((subtotal - discount_amount) * tax_rate) and total_amount is
\* round(subtotal - discount_amount + tax_amount), subtotal being the sum of
\* unit_price * quantity over the stored items.
C12_StoredTotalsNeverDrift ==
  (quotes # <<>> /\ \A c \in Callers : calls[c].fn \notin {"createQuote", "updateQuote"}) =>
    /\ quotes[1].tax_amount =
         calculateQuoteTotals(itemsOf(quote_items, 1), quotes[1].tax_rate,
                              quotes[1].discount_amount).taxAmount
    /\ quotes[1].total_amount =
         calculateQuoteTotals(itemsOf(quote_items, 1), quotes[1].tax_rate,
                              quotes[1].discount_amount).totalAmount

\* ---------------------------------------------------------------------
\* Properties of calculatePrice (continued)
\* ---------------------------------------------------------------------
\* the rules left when, of the applicable rules of one type, only the first
\* in list order among those of the highest priority is kept
FirstOfTies(rules) ==
  SelectSeq(rules,
    LAMBDA r : ~\E i \in 1..Len(rules) :
                  /\ rules[i].ruleType = r.ruleType
                  /\ \/ rules[i].priority > r.priority
                     \/ rules[i].priority = r.priority /\ rules[i].id < r.id)

\* C21: of several matching rules of one type that tie on the highest
\* priority, the one that comes first in the input list is the one applied.
C21_TiesBreakByListOrder ==
  PriceDone =>
    /\ result = PriceOfApplicable(FirstOfTies(Applicable))
    /\ \A i \in 1..Len(result.appliedRules) :
         \A k \in 1..Len(Applicable) :
           (/\ Applicable[k].ruleType = result.appliedRules[i].ruleType
            /\ Applicable[k].priority = result.appliedRules[i].priority)
             => Applicable[k].id >= result.appliedRules[i].ruleId

\* two tier rules of priority 2, a fixed discount first and an override that
\* would yield no discount second: the fixed discount is applied
C21_Witness ==
  /\ PriceDone
  /\ Len(args.rules) = 2
  /\ Len(Applicable) = 2
  /\ args.rules[1].ruleType = "tier" /\ args.rules[2].ruleType = "tier"
  /\ args.rules[1].priority = 2 /\ args.rules[2].priority = 2
  /\ args.rules[1].discountType = "fixed"
  /\ args.rules[2].discountType = "price_override"
  /\ Len(result.appliedRules) = 1
  /\ result.appliedRules[1].ruleId = 1

\* C22: discountPercentage is 0 when basePrice is 0, for every rule list, and
\* otherwise (basePrice - unitPrice) / basePrice * 100 rounded to 2 decimals.
C22_DiscountPercentage ==
  PriceDone =>
    IF args.context.basePrice = NumZero
    THEN result.discountPercentage = NumZero
    ELSE result.discountPercentage =
           Round2(NumMul(NumDiv(NumSub(args.context.basePrice, result.unitPrice),
                                args.context.basePrice),
                         NumInt(100)))

\* a rule list on a product whose base price is 0
C22_Witness ==
  /\ PriceDone
  /\ args.context.basePrice = NumZero
  /\ Len(args.rules) = 1
  /\ result.discountPercentage = NumZero

\* ---------------------------------------------------------------------
\* Properties of the approval workflow
\* ---------------------------------------------------------------------
\* this step is the answer of a call of fn
Answers(fn) == op = "idle" /\ op' = fn

\* some approval setting that is active and not soft-deleted has its
\* threshold at or below the amount
AtOrAboveThreshold(total_amount) ==
  \E i \in 1..Len(approval_settings) :
    /\ approval_settings[i].is_active
    /\ ~approval_settings[i].is_deleted
    /\ NumGe(total_amount, approval_settings[i].threshold_amount)

\* C23: a quote whose stored total is at or above an active threshold is in
\* status sent only after approveQuote took effect on it.
C23_ApprovalNotBypassed ==
  (quotes # <<>> /\ quotes[1].status = "sent" /\ AtOrAboveThreshold(quotes[1].total_amount))
    => "approveQuote" \in history

\* the step of caller c is the request of submitForApproval at position pc
SubmitStepAt(c, pc) ==
  /\ calls[c].fn = "submitForApproval"
  /\ calls[c].pc = pc
  /\ calls'[c] # calls[c]

\* C24: submitForApproval decides that approval is needed iff total_amount
\* is at or above the threshold of a setting that is active and not
\* soft-deleted, and routes the quote to pending_approval with
\* requires_approval = true in that case and to approved otherwise. The
\* claim is about the settings the call has read and the update it has
\* made: a call whose settings request or whose update fails is not held
\* against it.
C24_SubmitRouting ==
  [][\A c \in Callers :
       /\ (SubmitStepAt(c, "settings") /\ Has(calls'[c].needsApproval)) =>
            (calls'[c].needsApproval[1] <=> AtOrAboveThreshold(calls[c].total_amount))
       /\ (SubmitStepAt(c, "update") /\ quotes # <<>> /\ result' = Success
             /\ Has(calls[c].needsApproval)) =>
            /\ quotes'[1].requires_approval = calls[c].needsApproval[1]
            /\ quotes'[1].status =
                 IF calls[c].needsApproval[1] THEN "pending_approval" ELSE "approved"]_vars

\* C25: submitForApproval changes the quote only when it is a draft: on any
\* other status, or no quote, it answers success = false and leaves the quote
\* as it is, also when the status changed between its read and its update.
C25_SubmitOnlyOnDraft ==
  [][/\ (op = "idle" /\ op' = "submitForApproval"
           /\ (quotes = <<>> \/ quotes[1].status # "draft")) =>
          (result' = Failure /\ quotes' = quotes)
     /\ \A c \in Callers :
          (calls[c].fn = "submitForApproval" /\ calls'[c] # calls[c]) =>
            (quotes' # quotes => quotes[1].status = "draft")]_vars

\* C26: approveQuote moves a pending_approval quote to approved, rejectQuote
\* moves it to draft, and on a quote in any other status neither changes the
\* quote, whatever runs before or after. A call whose request fails answers
\* success = false and changes nothing; a call that answers success = true
\* has moved the quote if it was pending_approval.
C26_ApproverActsOnPendingOnly ==
  [][/\ Answers("approveQuote") =>
          IF quotes # <<>> /\ quotes[1].status = "pending_approval" /\ result' = Success
          THEN /\ quotes'[1].status = "approved"
               /\ quotes'[1].approved_at = Timestamp("approveQuote")
               /\ quotes'[1].approval_notes \in ApprovalNotes
          ELSE quotes' = quotes
     /\ Answers("rejectQuote") =>
          IF quotes # <<>> /\ quotes[1].status = "pending_approval" /\ result' = Success
          THEN /\ quotes'[1].status = "draft"
               /\ quotes'[1].approval_notes = "reason"
          ELSE quotes' = quotes
     /\ \A fn \in {"approveQuote", "rejectQuote"} :
          Answers(fn) => result' \in {Success, Failure}]_vars

\* approveQuote has answered success on a quote that was sent, which still is, and
\* it has taken effect before on the quote while it was pending
C26_Witness ==
  /\ op = "approveQuote"
  /\ result = Success
  /\ quotes # <<>>
  /\ quotes[1].status = "sent"
  /\ quotes[1].approved_at = Timestamp("approveQuote")
  /\ "approveQuote" \in history

\* ---------------------------------------------------------------------
\* Properties of updateQuote, request by request
\* ---------------------------------------------------------------------
\* C29: when updateQuote returns an error on a quote that had items, the
\* stored header amounts and the stored items of the quote are exactly as
\* they were before the call. A call whose first write is the request that
\* failed has written nothing: what overlapping calls stored meanwhile is not
\* held against it.
C29_UpdateAllOrNothing ==
  [][\A c \in Callers :
       (Answers("updateQuote") /\ calls[c].fn = "updateQuote" /\ calls'[c] = NoCall
          /\ result'.error # NULL /\ calls[c].pc # "header"
          /\ calls[c].before[1].quote_items # <<>>) =>
         /\ amountsOf(quotes'[calls[c].id]) = calls[c].before[1].amounts[calls[c].id]
         /\ quote_items' = calls[c].before[1].quote_items]_vars

\* ---------------------------------------------------------------------
\* Properties of the customer's answer
\* ---------------------------------------------------------------------
TokenFns == {"acceptQuoteByToken", "rejectQuoteByToken"}

\* this step is the update of an accept or reject call of caller c
TokenUpdateOf(c, fn) == calls[c].fn = fn /\ calls'[c] = NoCall

\* C27: acceptQuoteByToken succeeds and stores 'accepted' only when the quote
\* it found by the token is 'sent' and its valid_until is not in the past,
\* rejectQuoteByToken stores 'rejected' only when the quote is 'sent' (the
\* status the quote has when the update takes effect), and a call that
\* answers success = false leaves the quote as it is.
C27_TokenAnswerOnlyOnSent ==
  [][/\ \A c \in Callers :
          /\ (calls[c] = NoCall /\ calls'[c].fn = "acceptQuoteByToken") =>
               /\ calls'[c].id \in 1..Len(quotes)
               /\ ~quotes[calls'[c].id].is_deleted
               /\ quotes[calls'[c].id].status = "sent"
               /\ Has(quotes[calls'[c].id].valid_until) =>
                    calls'[c].now \div 2 <= quotes[calls'[c].id].valid_until[1]
          /\ (calls[c] = NoCall /\ calls'[c].fn = "rejectQuoteByToken") =>
               /\ calls'[c].id \in 1..Len(quotes)
               /\ ~quotes[calls'[c].id].is_deleted
               /\ quotes[calls'[c].id].status = "sent"
     /\ \A fn \in TokenFns :
          Answers(fn) =>
            IF result' = Success
            THEN \E c \in Callers :
                   /\ TokenUpdateOf(c, fn)
                   /\ calls[c].status = "sent"
                   /\ quotes[calls[c].id].status = "sent"
                   /\ quotes'[calls[c].id].status =
                        IF fn = "acceptQuoteByToken" THEN "accepted" ELSE "rejected"
            ELSE quotes' = quotes
     /\ \A id \in 1..Len(quotes) :
          (quotes'[id].status \in {"accepted", "rejected"}
             /\ quotes[id].status # quotes'[id].status) =>
            \E fn \in TokenFns : Answers(fn) /\ result' = Success]_vars

\* C28: of the accept and reject calls that run on one sent quote at most
\* one answers success = true, and the stored status is the one of that
\* call.
C28_AnswersMutuallyExclusive ==
  [][/\ \A fn \in TokenFns :
          (Answers(fn) /\ result' = Success) => history \cap TokenFns = {}
     /\ (history' \cap TokenFns = {"acceptQuoteByToken"}) => quotes'[1].status = "accepted"
     /\ (history' \cap TokenFns = {"rejectQuoteByToken"}) => quotes'[1].status = "rejected"]_vars

\* ---------------------------------------------------------------------
\* Properties of the templates
\* ---------------------------------------------------------------------
DefaultTemplates ==
  {i \in 1..Len(quote_templates) :
     quote_templates[i].is_default /\ ~quote_templates[i].is_deleted}

\* C30: at most one template of the organisation (of those not deleted) has
\* is_default = true, after any sequence and any interleaving of
\* createTemplate, updateTemplate, setDefaultTemplate and deleteTemplate.
C30_OneDefaultTemplate == Cardinality(DefaultTemplates) <= 1
====
